---- MODULE Spec2Model ----
(***************************************************************************)
(* Portfolio backtest engine of stock-indicator-backtest:                  *)
(*   src/src/backtestPortfolio.js  buildExecutionEvents,                   *)
(*                                 simulatePortfolioEqualWeight, MinHeap   *)
(*   src/src/backtest.js           computeMaxDrawdown                      *)
(*                                                                         *)
(* Money is held in units of 1/Scale of a currency unit, so that           *)
(* gross * feeBps / 10000 is an exact integer.  Prices and share counts    *)
(* are integers.  A price that is NaN, non-finite or non-positive is       *)
(* written 0: every test in the code is !isFinite(px) || !(px > 0), which  *)
(* treats all of them alike.  IEEE-754 rounding is not modelled.           *)
(***************************************************************************)
EXTENDS Integers, Sequences, FiniteSets, TLC

VARIABLES
  seriesByFile,      \* file -> [datesYmd, closeAdj]
  events,            \* the events argument, in the caller's order
  cfg,               \* startYmd, endYmd, initialCapital, lot, feeBps, stampBps
  sortedEvents,      \* filtered and sorted events
  i,                 \* index of the next event of sortedEvents (0-based)
  date,              \* date of the batch being replayed (0: none)
  todays,            \* the batch of the date
  cash,
  positions,         \* file -> NoPos or [shares, lastPrice, idx, nextIdx, entry]
  trades,
  equityCurve,
  totalMarketValue,
  heap,              \* MinHeap._a
  result,            \* the returned summary (NoResult until the run ends)
  pc,                \* position in the replay loop
  log,               \* history: one entry per settled sell and settled buy
  dd,                \* computeMaxDrawdown's loop: [curve, k, peak, maxDd, from, to]
  per,               \* simulatePortfolioPeriodicIdeal: market dates and period plans
  single,            \* simulateLongOnly: [shares, entry, lastValidClose]
  narrow             \* buyWithEqualBudget: [candidates] of the narrowing loop

vars == <<seriesByFile, events, cfg, sortedEvents, i, date, todays, cash, positions,
          trades, equityCurve, totalMarketValue, heap, result, pc, log, dd, per, single,
          narrow>>

simVars == <<seriesByFile, events, cfg, sortedEvents, i, date, todays, cash, positions,
             trades, equityCurve, totalMarketValue, heap, result, pc, log, per, single,
             narrow>>

(***************************************************************************)
(* Bounds and program constants                                            *)
(***************************************************************************)
\* feeRate = feeBps / 10000
BpsDenominator == 10000

\* money unit: 1/Scale (equal to the bps denominator, so fees are exact)
Scale == BpsDenominator

\* default lot of the command line and of simulatePortfolioEqualWeight
DefaultLot == 100

NoPos == [shares |-> 0]
NoResult == [done |-> FALSE]
Null == 0             \* null date (maxDdFrom, maxDdTo)
NaNEquity == -999999  \* an equity that is not finite

Files == {"a", "b", "c"}
FileOrder == <<"a", "b", "c">>

(***************************************************************************)
(* Small helpers                                                           *)
(***************************************************************************)
RECURSIVE SetSum(_, _)
SetSum(S, f) == IF S = {} THEN 0
                ELSE LET x == CHOOSE y \in S : TRUE IN f[x] + SetSum(S \ {x}, f)

\* Math.floor(x / y) for x >= 0, y > 0
FloorDiv(x, y) == x \div y

\* a/b < c/d for a, c >= 0 and b, d > 0, by the Euclidean algorithm (no product
\* is formed, so no overflow)
RECURSIVE FracLess(_, _, _, _)
FracLess(a, b, c, d) ==
  LET q1 == a \div b
      q2 == c \div d
      r1 == a % b
      r2 == c % d
  IN IF q1 # q2 THEN q1 < q2
     ELSE IF r2 = 0 THEN FALSE
     ELSE IF r1 = 0 THEN TRUE
     ELSE FracLess(d, r2, b, r1)

FracEq(a, b, c, d) == ~FracLess(a, b, c, d) /\ ~FracLess(c, d, a, b)

\* Number.isFinite(px) && px > 0
IsFinitePrice(px) == px > 0

\* a.localeCompare(b, 'en') on the file names of the model
FileRank(f) == CHOOSE k \in DOMAIN FileOrder : FileOrder[k] = f
LocaleCompare(x, y) == IF FileRank(x) < FileRank(y) THEN -1
                       ELSE IF FileRank(x) > FileRank(y) THEN 1 ELSE 0

(***************************************************************************)
(* pushEquityPoint                                                         *)
(***************************************************************************)
shouldReplaceLastPoint(curve, d) == Len(curve) > 0 /\ curve[Len(curve)].date = d

pushEquityPoint(curve, d, equity) ==
  LET p == [date |-> d, equity |-> equity]
  IN IF shouldReplaceLastPoint(curve, d)
     THEN [curve EXCEPT ![Len(curve)] = p]
     ELSE Append(curve, p)

(***************************************************************************)
(* MinHeap: _a is 0-based in the code; index k of the code is k+1 here     *)
(***************************************************************************)
Swap(a, x, y) == [a EXCEPT ![x] = a[y], ![y] = a[x]]

RECURSIVE SiftUp(_, _)
SiftUp(a, k) ==
  IF k <= 0 THEN a
  ELSE LET p == (k - 1) \div 2
       IN IF a[p + 1].date <= a[k + 1].date THEN a
          ELSE SiftUp(Swap(a, p + 1, k + 1), p)

HeapPush(a, x) == SiftUp(Append(a, x), Len(a))

RECURSIVE SiftDown(_, _)
SiftDown(a, k) ==
  LET l == k * 2 + 1
      r == k * 2 + 2
      m1 == IF l < Len(a) /\ a[l + 1].date < a[k + 1].date THEN l ELSE k
      m == IF r < Len(a) /\ a[r + 1].date < a[m1 + 1].date THEN r ELSE m1
  IN IF m = k THEN a ELSE SiftDown(Swap(a, m + 1, k + 1), m)

HeapPeek(a) == a[1]

\* the array after pop(); the popped element is HeapPeek(a)
HeapPop(a) ==
  LET last == a[Len(a)]
      rest == SubSeq(a, 1, Len(a) - 1)
  IN IF rest = <<>> THEN rest
     ELSE SiftDown([rest EXCEPT ![1] = last], 0)

(***************************************************************************)
(* buildExecutionEvents: indices are 0-based as in the code; element k of  *)
(* an array is s[k + 1]                                                    *)
(***************************************************************************)
At(arr, k) == arr[k + 1]

inRange(datesYmd, idx, startYmd, endYmd) ==
  At(datesYmd, idx) >= startYmd /\ At(datesYmd, idx) <= endYmd

execIndex(execution, k) == IF execution = "close" THEN k ELSE k + 1

Event(d, type, file, execIdx, price, reason) ==
  [date |-> d, type |-> type, file |-> file, execIdx |-> execIdx,
   price |-> price, reason |-> reason]

\* the scan without the test of line 83: a signal before startYmd still trades
SignalEventsAtAnyIndex(file, s, entrySignal, exitSignal, startYmd, endYmd, execution, k) ==
  LET n == Len(s.closeAdj)
      j == execIndex(execution, k)
      ok == /\ j >= 0 /\ j < n
            /\ inRange(s.datesYmd, j, startYmd, endYmd)
            /\ IsFinitePrice(At(s.closeAdj, j))
  IN IF ~ok THEN <<>>
     ELSE (IF At(exitSignal, k)
           THEN <<Event(At(s.datesYmd, j), "sell", file, j, At(s.closeAdj, j), "signal_exit")>>
           ELSE <<>>)
          \o
          (IF At(entrySignal, k)
           THEN <<Event(At(s.datesYmd, j), "buy", file, j, At(s.closeAdj, j), "signal_entry")>>
           ELSE <<>>)

\* the events one index of the scan adds (lines 82-102)
SignalEventsAt(file, s, entrySignal, exitSignal, startYmd, endYmd, execution, k) ==
  LET n == Len(s.closeAdj)
      j == execIndex(execution, k)
      ok == /\ inRange(s.datesYmd, k, startYmd, endYmd)
            /\ j >= 0 /\ j < n
            /\ inRange(s.datesYmd, j, startYmd, endYmd)
            /\ IsFinitePrice(At(s.closeAdj, j))
  IN IF ~ok THEN <<>>
     ELSE (IF At(exitSignal, k)
           THEN <<Event(At(s.datesYmd, j), "sell", file, j, At(s.closeAdj, j), "signal_exit")>>
           ELSE <<>>)
          \o
          (IF At(entrySignal, k)
           THEN <<Event(At(s.datesYmd, j), "buy", file, j, At(s.closeAdj, j), "signal_entry")>>
           ELSE <<>>)

RECURSIVE SignalEvents(_, _, _, _, _, _, _, _)
SignalEvents(file, s, entrySignal, exitSignal, startYmd, endYmd, execution, k) ==
  IF k >= Len(s.closeAdj) THEN <<>>
  ELSE SignalEventsAt(file, s, entrySignal, exitSignal, startYmd, endYmd, execution, k)
       \o SignalEvents(file, s, entrySignal, exitSignal, startYmd, endYmd, execution, k + 1)

\* lastIdx without the price test of lines 109-110
LastInWindowIdx(s, startYmd, endYmd) ==
  LET good == {k \in 0..(Len(s.closeAdj) - 1) : inRange(s.datesYmd, k, startYmd, endYmd)}
  IN IF good = {} THEN -1 ELSE CHOOSE k \in good : \A m \in good : m <= k

\* lastIdx of lines 105-112: the last in-window index with a finite positive close
LastTradableIdx(s, startYmd, endYmd) ==
  LET good == {k \in 0..(Len(s.closeAdj) - 1) :
                 /\ inRange(s.datesYmd, k, startYmd, endYmd)
                 /\ IsFinitePrice(At(s.closeAdj, k))}
  IN IF good = {} THEN -1 ELSE CHOOSE k \in good : \A m \in good : m <= k

ForceExitEvents(file, s, startYmd, endYmd) ==
  LET lastIdx == LastTradableIdx(s, startYmd, endYmd)
  IN IF lastIdx >= 0
     THEN <<Event(At(s.datesYmd, lastIdx), "sell", file, lastIdx,
                  At(s.closeAdj, lastIdx), "force_exit_eof")>>
     ELSE <<>>

buildExecutionEvents(file, s, entrySignal, exitSignal, startYmd, endYmd, execution) ==
  SignalEvents(file, s, entrySignal, exitSignal, startYmd, endYmd, execution, 0)
  \o ForceExitEvents(file, s, startYmd, endYmd)

(***************************************************************************)
(* simulatePortfolioEqualWeight: the filter and the sort of lines 147-155  *)
(***************************************************************************)
\* the comparator with the operands of the date difference swapped
CompareEventsDateSwapped(x, y) ==
  IF x.date # y.date THEN y.date - x.date
  ELSE IF x.type # y.type THEN (IF x.type = "sell" THEN -1 ELSE 1)
  ELSE LocaleCompare(x.file, y.file)

\* the comparator without its last key, the security id
CompareEventsNoFileKey(x, y) ==
  IF x.date # y.date THEN x.date - y.date
  ELSE IF x.type # y.type THEN (IF x.type = "sell" THEN -1 ELSE 1)
  ELSE 0

\* the comparator: negative when x sorts before y
CompareEvents(x, y) ==
  IF x.date # y.date THEN x.date - y.date
  ELSE IF x.type # y.type THEN (IF x.type = "sell" THEN -1 ELSE 1)
  ELSE LocaleCompare(x.file, y.file)

\* Array.prototype.sort is stable: an element goes after every element that does
\* not compare greater than it
RECURSIVE InsertSorted(_, _)
InsertSorted(sorted, e) ==
  IF sorted = <<>> THEN <<e>>
  ELSE IF CompareEvents(Head(sorted), e) <= 0
       THEN <<Head(sorted)>> \o InsertSorted(Tail(sorted), e)
       ELSE <<e>> \o sorted

RECURSIVE StableSort(_)
StableSort(s) ==
  IF s = <<>> THEN <<>>
  ELSE InsertSorted(StableSort(SubSeq(s, 1, Len(s) - 1)), s[Len(s)])

\* the filter of line 148 without its upper bound
InWindowFromStart(e, c) == e.date >= c.startYmd

InWindow(e, c) == e.date >= c.startYmd /\ e.date <= c.endYmd

SortEvents(evs, c) ==
  LET Keep(e) == InWindow(e, c)
  IN StableSort(SelectSeq(evs, Keep))

(***************************************************************************)
(* simulatePortfolioEqualWeight: the closures over the run's state.  st is *)
(* the record of the run's mutable state; ser is seriesByFile, c is cfg.   *)
(***************************************************************************)
Has(pos) == pos # NoPos

RunState == [cash |-> cash, positions |-> positions, trades |-> trades,
             equityCurve |-> equityCurve, totalMarketValue |-> totalMarketValue,
             heap |-> heap, log |-> log]

\* pushNextIfAny scheduling the next observation whatever its date
pushNextIfAnyPastEnd(st, ser, c, file) ==
  LET pos == st.positions[file]
      datesYmd == ser[file].datesYmd
      ni == pos.nextIdx
  IN IF ~Has(pos) THEN st
     ELSE IF ni >= 0 /\ ni < Len(datesYmd)
          THEN [st EXCEPT !.heap = HeapPush(st.heap, [date |-> At(datesYmd, ni), file |-> file])]
          ELSE st

\* lines 165-176
pushNextIfAny(st, ser, c, file) ==
  LET pos == st.positions[file]
      datesYmd == ser[file].datesYmd
      ni == pos.nextIdx
  IN IF ~Has(pos) THEN st
     ELSE IF ni >= 0 /\ ni < Len(datesYmd) /\ At(datesYmd, ni) <= c.endYmd
          THEN [st EXCEPT !.heap = HeapPush(st.heap, [date |-> At(datesYmd, ni), file |-> file])]
          ELSE st

\* the update with the market-value delta forgotten
applyPriceUpdateNoDelta(st, ser, c, file, newIdx) ==
  LET pos == st.positions[file]
      newPrice == At(ser[file].closeAdj, newIdx)
  IN IF ~Has(pos) THEN st
     ELSE pushNextIfAny(
            [st EXCEPT !.positions[file].lastPrice =
                          IF IsFinitePrice(newPrice) THEN newPrice ELSE pos.lastPrice,
                       !.positions[file].idx = newIdx,
                       !.positions[file].nextIdx = newIdx + 1],
            ser, c, file)

\* the update that returns on a missing quote without advancing the index
applyPriceUpdateKeepsIndex(st, ser, c, file, newIdx) ==
  LET pos == st.positions[file]
      newPrice == At(ser[file].closeAdj, newIdx)
  IN IF ~Has(pos) THEN st
     ELSE IF ~IsFinitePrice(newPrice) THEN st
          ELSE pushNextIfAny(
                 [st EXCEPT !.positions[file].lastPrice = newPrice,
                            !.positions[file].idx = newIdx,
                            !.positions[file].nextIdx = newIdx + 1,
                            !.totalMarketValue =
                               st.totalMarketValue + pos.shares * (newPrice - pos.lastPrice) * Scale],
                 ser, c, file)

applyPriceUpdate(st, ser, c, file, newIdx) ==
  LET pos == st.positions[file]
      newPrice == At(ser[file].closeAdj, newIdx)
  IN IF ~Has(pos) THEN st
     ELSE IF ~IsFinitePrice(newPrice)
          THEN pushNextIfAny(
                 [st EXCEPT !.positions[file].idx = newIdx,
                            !.positions[file].nextIdx = newIdx + 1],
                 ser, c, file)
          ELSE pushNextIfAny(
                 [st EXCEPT !.positions[file].lastPrice = newPrice,
                            !.positions[file].idx = newIdx,
                            !.positions[file].nextIdx = newIdx + 1,
                            !.totalMarketValue =
                               st.totalMarketValue + pos.shares * (newPrice - pos.lastPrice) * Scale],
                 ser, c, file)

\* the inner loop of flushUpdatesBefore and of applyUpdatesAt: pop every heap
\* entry dated d and apply the update it stands for
RECURSIVE PopGroup(_, _, _, _)
PopGroup(st, ser, c, d) ==
  IF Len(st.heap) > 0 /\ HeapPeek(st.heap).date = d
  THEN LET file == HeapPeek(st.heap).file
           st1 == [st EXCEPT !.heap = HeapPop(st.heap)]
           pos == st1.positions[file]
           datesYmd == ser[file].datesYmd
       IN IF Has(pos) /\ pos.nextIdx >= 0 /\ pos.nextIdx < Len(datesYmd)
             /\ At(datesYmd, pos.nextIdx) = d
          THEN PopGroup(applyPriceUpdate(st1, ser, c, file, pos.nextIdx), ser, c, d)
          ELSE PopGroup(st1, ser, c, d)
  ELSE st

\* whether the outer loop of flushUpdatesBefore(dateExclusive) goes round again
FlushPending(st, dateExclusive) ==
  Len(st.heap) > 0 /\ HeapPeek(st.heap).date < dateExclusive

\* one round of the outer loop of flushUpdatesBefore: one date, one equity point
flushOneDate(st, ser, c) ==
  LET d == HeapPeek(st.heap).date
      st1 == PopGroup(st, ser, c, d)
  IN [st1 EXCEPT !.equityCurve = pushEquityPoint(st1.equityCurve, d, st1.cash + st1.totalMarketValue)]

\* the replay without the same-date updates of line 323
applyUpdatesAtNone(st, ser, c, dateInclusive) == st

applyUpdatesAt(st, ser, c, dateInclusive) == PopGroup(st, ser, c, dateInclusive)

LogEntry(ev, before, after, heldBefore) ==
  [date |-> ev.date, type |-> ev.type, file |-> ev.file,
   cashBefore |-> before, cashAfter |-> after, heldBefore |-> heldBefore]

\* the net proceeds with the sell-side stamp tax forgotten
SellNetNoStamp(shares, px, c) ==
  LET gross == shares * px * Scale
      fee == shares * px * c.feeBps * (Scale \div BpsDenominator)
  IN gross - fee

\* net proceeds of selling shares at px: gross - fee - stamp
SellNet(shares, px, c) ==
  LET gross == shares * px * Scale
      fee == shares * px * c.feeBps * (Scale \div BpsDenominator)
      stamp == shares * px * c.stampBps * (Scale \div BpsDenominator)
  IN gross - fee - stamp

\* pnl / costBasis, kept as the pair of its numerator and denominator
Ret(pnl, costBasis) == IF costBasis > 0 THEN <<pnl, costBasis>> ELSE <<0, 0>>

\* sellOne recording the pnl on the gross proceeds, fee and stamp left out
sellOnePnlOnGross(st, ser, c, ev) ==
  LET pos == st.positions[ev.file]
      px == ev.price
      net == SellNet(pos.shares, px, c)
      pnl == pos.shares * px * Scale - pos.entry.costBasis
  IN IF ~Has(pos) THEN st
     ELSE IF ~IsFinitePrice(px) THEN st
     ELSE [st EXCEPT
             !.cash = st.cash + net,
             !.totalMarketValue = st.totalMarketValue - pos.shares * pos.lastPrice * Scale,
             !.trades = Append(st.trades,
                          [file |-> ev.file, entryDate |-> pos.entry.date, exitDate |-> ev.date,
                           entryPrice |-> pos.entry.price, exitPrice |-> px,
                           shares |-> pos.shares, pnl |-> pnl,
                           ret |-> Ret(pnl, pos.entry.costBasis), reason |-> ev.reason]),
             !.positions[ev.file] = NoPos,
             !.log = Append(st.log, LogEntry(ev, st.cash, st.cash + net, TRUE))]

\* lines 282-316
sellOne(st, ser, c, ev) ==
  LET pos == st.positions[ev.file]
      px == ev.price
      \* the correction of a lagging mark (lines 289-292)
      tmv1 == IF pos.lastPrice # px
              THEN st.totalMarketValue + pos.shares * (px - pos.lastPrice) * Scale
              ELSE st.totalMarketValue
      net == SellNet(pos.shares, px, c)
      pnl == net - pos.entry.costBasis
  IN IF ~Has(pos) THEN st
     ELSE IF ~IsFinitePrice(px) THEN st
     ELSE [st EXCEPT
             !.cash = st.cash + net,
             !.totalMarketValue = tmv1 - pos.shares * px * Scale,
             !.trades = Append(st.trades,
                          [file |-> ev.file, entryDate |-> pos.entry.date, exitDate |-> ev.date,
                           entryPrice |-> pos.entry.price, exitPrice |-> px,
                           shares |-> pos.shares, pnl |-> pnl,
                           ret |-> Ret(pnl, pos.entry.costBasis), reason |-> ev.reason]),
             !.positions[ev.file] = NoPos,
             !.log = Append(st.log, LogEntry(ev, st.cash, st.cash + net, TRUE))]

\* line 332: for (const ev of todays) if (ev.type === 'sell') sellOne(ev)
RECURSIVE SellAll(_, _, _, _)
SellAll(st, ser, c, evs) ==
  IF evs = <<>> THEN st
  ELSE SellAll(IF Head(evs).type = "sell" THEN sellOne(st, ser, c, Head(evs)) ELSE st,
               ser, c, Tail(evs))

\* the affordability test against the whole cash instead of the per-head budget
canBuyAtCash(ev, cashNow, heads, c) ==
  FloorDiv(cashNow, ev.price * c.lot * Scale) * c.lot > 0

\* Math.floor(budget / (ev.price * lot)) * lot > 0 with budget = cash / heads
canBuyAtBudget(ev, cashNow, heads, c) ==
  FloorDiv(cashNow, heads * ev.price * c.lot * Scale) * c.lot > 0

\* one round of the commit loop (lines 246-274) for candidates[k]
CommitOne(st, ser, c, candidates, k) ==
  LET ev == At(candidates, k)
      px == ev.price
      heads == Len(candidates) - k
      qty0 == FloorDiv(st.cash, heads * px * c.lot * Scale) * c.lot
      maxQty == FloorDiv(st.cash, px * c.lot * Scale) * c.lot
      qty == IF qty0 > maxQty THEN maxQty ELSE qty0
      gross == qty * px * Scale
      fee == qty * px * c.feeBps * (Scale \div BpsDenominator)
      cost == gross + fee
  IN IF qty <= 0 THEN st
     ELSE IF cost > st.cash THEN st     \* cost > cash + 1e-9
     ELSE pushNextIfAny(
            [st EXCEPT
               !.cash = st.cash - cost,
               !.positions[ev.file] =
                  [shares |-> qty, lastPrice |-> px, idx |-> ev.execIdx,
                   nextIdx |-> ev.execIdx + 1,
                   entry |-> [date |-> ev.date, price |-> px, costBasis |-> cost]],
               !.totalMarketValue = st.totalMarketValue + qty * px * Scale,
               !.log = Append(st.log, LogEntry(ev, st.cash, st.cash - cost,
                                              Has(st.positions[ev.file])))],
            ser, c, ev.file)

RECURSIVE CommitAll(_, _, _, _, _)
CommitAll(st, ser, c, candidates, k) ==
  IF k >= Len(candidates) THEN st
  ELSE CommitAll(CommitOne(st, ser, c, candidates, k), ser, c, candidates, k + 1)

\* the narrowing loop (lines 242-279)
RECURSIVE Narrow(_, _, _, _)
Narrow(st, ser, c, candidates) ==
  LET CanBuy(ev) == canBuyAtBudget(ev, st.cash, Len(candidates), c)
      buyable == SelectSeq(candidates, CanBuy)
  IN IF candidates = <<>> THEN st
     ELSE IF Len(buyable) = Len(candidates) THEN CommitAll(st, ser, c, candidates, 0)
     ELSE IF buyable = <<>> THEN st
     ELSE Narrow(st, ser, c, buyable)

\* the candidate list the narrowing loop commits (line 245 holds), <<>> if it
\* returns at line 277 or starts empty
RECURSIVE CommittedCandidates(_, _, _)
CommittedCandidates(st, c, candidates) ==
  LET CanBuy(ev) == canBuyAtBudget(ev, st.cash, Len(candidates), c)
      buyable == SelectSeq(candidates, CanBuy)
  IN IF candidates = <<>> THEN <<>>
     ELSE IF Len(buyable) = Len(candidates) THEN candidates
     ELSE IF buyable = <<>> THEN <<>>
     ELSE CommittedCandidates(st, c, buyable)

\* line 238 without its filter
Candidates0Unfiltered(st, buyEvents) == buyEvents

\* line 238: the buy events of securities that hold no position
Candidates0(st, buyEvents) ==
  LET NotHeld(ev) == ~Has(st.positions[ev.file])
  IN SelectSeq(buyEvents, NotHeld)

buyWithEqualBudget(st, ser, c, buyEvents) ==
  Narrow(st, ser, c, Candidates0(st, buyEvents))

BuysOf(evs) ==
  LET IsBuy(ev) == ev.type = "buy"
  IN SelectSeq(evs, IsBuy)

(***************************************************************************)
(* computeMaxDrawdown (src/src/backtest.js).  The loop state is            *)
(* [k, hasPeak, peak, maxDd, from, to]: k is the index of the next point,  *)
(* hasPeak is FALSE while peak is NEGATIVE_INFINITY, maxDd is the pair     *)
(* <<numerator, denominator>> of the fraction (peak - equity) / peak.      *)
(***************************************************************************)
DdStart == [k |-> 0, hasPeak |-> FALSE, peak |-> 0, maxDd |-> <<0, 1>>,
            from |-> Null, to |-> Null]

\* the body of the for loop for one point p
DdStep(s, p) ==
  LET peak1 == IF ~s.hasPeak \/ p.equity > s.peak THEN p.equity ELSE s.peak
      s1 == [s EXCEPT !.k = s.k + 1]
  IN IF p.equity = NaNEquity THEN s1
     ELSE IF peak1 > 0 /\ FracLess(s.maxDd[1], s.maxDd[2], peak1 - p.equity, peak1)
          THEN [s1 EXCEPT !.hasPeak = TRUE, !.peak = peak1,
                          !.maxDd = <<peak1 - p.equity, peak1>>,
                          !.from = p.date, !.to = p.date]
          ELSE [s1 EXCEPT !.hasPeak = TRUE, !.peak = peak1]

RECURSIVE DdLoop(_, _)
DdLoop(s, curve) ==
  IF s.k >= Len(curve) THEN s ELSE DdLoop(DdStep(s, At(curve, s.k)), curve)

computeMaxDrawdown(curve) ==
  LET s == DdLoop(DdStart, curve)
  IN [maxDrawdown |-> s.maxDd, maxDrawdownFrom |-> s.from, maxDrawdownTo |-> s.to]

(***************************************************************************)
(* simulatePortfolioEqualWeight: the replay loop (lines 318-361)           *)
(***************************************************************************)
\* the events of the batch that starts at index k: those dated as sortedEvents[k]
RECURSIVE BatchEnd(_, _)
BatchEnd(sorted, k) ==
  IF k + 1 < Len(sorted) /\ At(sorted, k + 1).date = At(sorted, k).date
  THEN BatchEnd(sorted, k + 1) ELSE k + 1

Batch(sorted, k) == SubSeq(sorted, k + 1, BatchEnd(sorted, k))

\* the batch with its buys settled before its sells
SettleBatchBuysFirst(st, ser, c, batch, d) ==
  LET st1 == SellAll(buyWithEqualBudget(st, ser, c, BuysOf(batch)), ser, c, batch)
  IN [st1 EXCEPT !.equityCurve =
                    pushEquityPoint(st1.equityCurve, d, st1.cash + st1.totalMarketValue)]

\* lines 331-338: the sells of the batch, then its buys, then the date's equity
\* point
SettleBatch(st, ser, c, batch, d) ==
  LET st1 == buyWithEqualBudget(SellAll(st, ser, c, batch), ser, c, BuysOf(batch))
  IN [st1 EXCEPT !.equityCurve =
                    pushEquityPoint(st1.equityCurve, d, st1.cash + st1.totalMarketValue)]

\* lines 343-360: the summary.  totalReturn and winRate are kept as pairs
\* <<numerator, denominator>>; avgTradeRet, a mean of floats that nothing else
\* reads, is left out.
Summary(st, c) ==
  LET finalEquity == st.cash + st.totalMarketValue
      Win(t) == t.pnl > 0
  IN [done |-> TRUE,
      finalEquity |-> finalEquity,
      totalReturn |-> <<finalEquity - c.initialCapital * Scale, c.initialCapital * Scale>>,
      maxDrawdown |-> computeMaxDrawdown(st.equityCurve).maxDrawdown,
      trades |-> st.trades,
      winRate |-> <<Len(SelectSeq(st.trades, Win)), Len(st.trades)>>,
      equityCurve |-> st.equityCurve]

\* the run as one function of its inputs: lines 147-361
StartState(c) ==
  [cash |-> c.initialCapital * Scale, positions |-> [f \in Files |-> NoPos],
   trades |-> <<>>, equityCurve |-> <<>>, totalMarketValue |-> 0, heap |-> <<>>,
   log |-> <<>>]

RECURSIVE flushUpdatesBefore(_, _, _, _)
flushUpdatesBefore(st, ser, c, dateExclusive) ==
  IF FlushPending(st, dateExclusive)
  THEN flushUpdatesBefore(flushOneDate(st, ser, c), ser, c, dateExclusive)
  ELSE st

RECURSIVE ReplayLoop(_, _, _, _, _)
ReplayLoop(st, ser, c, sorted, k) ==
  IF k >= Len(sorted) THEN flushUpdatesBefore(st, ser, c, c.endYmd + 1)
  ELSE LET d == At(sorted, k).date
           st1 == applyUpdatesAt(flushUpdatesBefore(st, ser, c, d), ser, c, d)
       IN ReplayLoop(SettleBatch(st1, ser, c, Batch(sorted, k), d), ser, c, sorted,
                     BatchEnd(sorted, k))

simulatePortfolioEqualWeight(ser, evs, c) ==
  Summary(ReplayLoop(StartState(c), ser, c, SortEvents(evs, c), 0), c)

SetRun(st) ==
  /\ cash' = st.cash
  /\ positions' = st.positions
  /\ trades' = st.trades
  /\ equityCurve' = st.equityCurve
  /\ totalMarketValue' = st.totalMarketValue
  /\ heap' = st.heap
  /\ log' = st.log

(***************************************************************************)
(* The inputs of a run.  Series have strictly ascending dates.  Security a *)
(* is observed on dates 1..SeriesLen with any entry and exit signals; its  *)
(* close is BasePrice, with an optional spike to BasePrice + 1 on one of   *)
(* the first two dates and an optional missing quote on the second or the  *)
(* last date.                                                              *)
(* Security b closes at BasePrice on dates that start up to MaxShift dates *)
(* later or leave a gap before the last one, and has at most one entry     *)
(* signal.  Security c has no observations.                                *)
(***************************************************************************)
SeriesLen == 3
MaxShift == 1
BasePrice == 10

ExecutionModes == {"close", "next_close"}
InitialCapitals == {1500, 2100}
FeeSchedules == {<<0, 0>>, <<10, 10>>}
\* fee and stamp rates above 100% pass the validation of lines 141-142
HugeFees == <<6000, 6000>>

Dates(shift, n) == [k \in 1..n |-> k + shift]

\* close: BasePrice, BasePrice + 1 at index spike (0: nowhere), no quote at index
\* hole (0: nowhere)
Closes(n, spike, hole) ==
  [k \in 1..n |-> IF k = hole THEN 0 ELSE IF k = spike THEN BasePrice + 1 ELSE BasePrice]

SeriesA == {[datesYmd |-> Dates(0, SeriesLen), closeAdj |-> Closes(SeriesLen, sp, ho)] :
              sp \in {0, 1, 2}, ho \in {0, 2, SeriesLen}}
\* dates 1..n with the last one moved gap dates later
GapDates(gap, n) == [k \in 1..n |-> IF k = n THEN k + gap ELSE k]

SeriesB == {[datesYmd |-> ds, closeAdj |-> Closes(SeriesLen, 0, 0)] :
              ds \in {Dates(sh, SeriesLen) : sh \in 0..MaxShift}
                     \cup {GapDates(MaxShift, SeriesLen)}}
NoSeries == [datesYmd |-> <<>>, closeAdj |-> <<>>]

Signals(n) == [1..n -> BOOLEAN]
\* at most one TRUE
OneSignal(n) == {[k \in 1..n |-> k = at] : at \in 0..n}
NoSignal(n) == [k \in 1..n |-> FALSE]

Windows == {[startYmd |-> 1, endYmd |-> SeriesLen + MaxShift],
            [startYmd |-> 2, endYmd |-> SeriesLen]}

Config(w, cap, fs) ==
  [startYmd |-> w.startYmd, endYmd |-> w.endYmd, initialCapital |-> cap,
   lot |-> DefaultLot, feeBps |-> fs[1], stampBps |-> fs[2]]

Configs == {Config(w, cap, fs) : w \in Windows, cap \in InitialCapitals, fs \in FeeSchedules}
           \cup {Config([startYmd |-> 1, endYmd |-> SeriesLen + MaxShift], 1600, HugeFees)}

Reverse(s) == [k \in 1..Len(s) |-> s[Len(s) + 1 - k]]

\* the caller's event list: the per-security lists in file order, or that reversed
InputOrders(evs) == {evs, Reverse(evs)}

Idle == [k |-> 0]

\* no periodic run
NoPlans == [marketDates |-> <<>>]

\* buyWithEqualBudget is not running
NoCandidates == [candidates |-> <<>>]

\* backtest.js lines 56-63: shares = 0, entry = null, lastValidClose = NaN (no valid
\* close: 0)
NoEntry == [execDate |-> Null]
Flat == [shares |-> 0, entry |-> NoEntry, lastValidClose |-> 0]

(***************************************************************************)
(* Validation of the options (the throw statements at the head of the      *)
(* three simulators).  NaN stands for every value Number.isFinite rejects. *)
(***************************************************************************)
NaN == NaNEquity
IsFiniteNumber(x) == x # NaN

\* the call ended in a throw: nothing is returned
Thrown == [done |-> FALSE, error |-> TRUE]

\* lines 138-142 without the check of stampBps
ValidConfigAnyStamp(c) ==
  /\ IsFiniteNumber(c.startYmd) /\ IsFiniteNumber(c.endYmd)
  /\ IsFiniteNumber(c.initialCapital) /\ ~(c.initialCapital <= 0)
  /\ IsFiniteNumber(c.lot) /\ ~(c.lot <= 0)
  /\ IsFiniteNumber(c.feeBps) /\ ~(c.feeBps < 0)

\* backtestPortfolio.js lines 138-142
ValidConfig(c) ==
  /\ IsFiniteNumber(c.startYmd) /\ IsFiniteNumber(c.endYmd)
  /\ IsFiniteNumber(c.initialCapital) /\ ~(c.initialCapital <= 0)
  /\ IsFiniteNumber(c.lot) /\ ~(c.lot <= 0)
  /\ IsFiniteNumber(c.feeBps) /\ ~(c.feeBps < 0)
  /\ IsFiniteNumber(c.stampBps) /\ ~(c.stampBps < 0)

\* backtestPortfolio.js lines 379-382
ValidPeriodicConfig(c) ==
  /\ IsFiniteNumber(c.startYmd) /\ IsFiniteNumber(c.endYmd)
  /\ IsFiniteNumber(c.initialCapital) /\ ~(c.initialCapital <= 0)
  /\ IsFiniteNumber(c.feeBps) /\ ~(c.feeBps < 0)
  /\ IsFiniteNumber(c.stampBps) /\ ~(c.stampBps < 0)


Init ==
  \E c \in Configs, ex \in ExecutionModes, sa \in SeriesA, sb \in SeriesB,
     ena \in Signals(SeriesLen), exa \in Signals(SeriesLen), enb \in OneSignal(SeriesLen) :
    LET ser == [f \in Files |-> IF f = "a" THEN sa ELSE IF f = "b" THEN sb ELSE NoSeries]
        evs == buildExecutionEvents("a", sa, ena, exa, c.startYmd, c.endYmd, ex)
               \o buildExecutionEvents("b", sb, enb, NoSignal(SeriesLen),
                                       c.startYmd, c.endYmd, ex)
               \o buildExecutionEvents("c", NoSeries, <<>>, <<>>, c.startYmd, c.endYmd, ex)
    IN /\ seriesByFile = ser
       /\ cfg = c
       /\ events \in InputOrders(evs)
       /\ sortedEvents = <<>>
       /\ i = 0
       /\ date = Null
       /\ todays = <<>>
       /\ cash = c.initialCapital * Scale
       /\ positions = [f \in Files |-> NoPos]
       /\ trades = <<>>
       /\ equityCurve = <<>>
       /\ totalMarketValue = 0
       /\ heap = <<>>
       /\ result = NoResult
       /\ pc = "start"
       /\ log = <<>>
       /\ dd = Idle
       /\ per = NoPlans
       /\ single = Flat
       /\ narrow = NoCandidates

\* lines 138-158 when no check throws: the sort and cash = initialCapital
StartRun ==
  /\ pc = "start"
  /\ ValidConfig(cfg)
  /\ sortedEvents' = SortEvents(events, cfg)
  /\ cash' = cfg.initialCapital * Scale
  /\ pc' = "loop"
  /\ UNCHANGED <<seriesByFile, events, cfg, i, date, todays, positions, trades,
                 equityCurve, totalMarketValue, heap, result, log, dd, per, single, narrow>>

\* lines 138-142 when a check throws
RejectRun ==
  /\ pc = "start"
  /\ ~ValidConfig(cfg)
  /\ result' = Thrown
  /\ pc' = "thrown"
  /\ UNCHANGED <<seriesByFile, events, cfg, sortedEvents, i, date, todays, cash, positions,
                 trades, equityCurve, totalMarketValue, heap, log, dd, per, single, narrow>>

\* one round of flushUpdatesBefore(date) at line 322
FlushBeforeDate ==
  /\ pc = "loop"
  /\ i < Len(sortedEvents)
  /\ FlushPending(RunState, At(sortedEvents, i).date)
  /\ SetRun(flushOneDate(RunState, seriesByFile, cfg))
  /\ UNCHANGED <<seriesByFile, events, cfg, sortedEvents, i, date, todays, result, pc, dd, per, single, narrow>>

\* lines 320-329 once the flush is over: applyUpdatesAt(date) and the batch
BeginDate ==
  /\ pc = "loop"
  /\ i < Len(sortedEvents)
  /\ ~FlushPending(RunState, At(sortedEvents, i).date)
  /\ date' = At(sortedEvents, i).date
  /\ SetRun(applyUpdatesAt(RunState, seriesByFile, cfg, At(sortedEvents, i).date))
  /\ todays' = Batch(sortedEvents, i)
  /\ i' = BatchEnd(sortedEvents, i)
  /\ pc' = "settle"
  /\ UNCHANGED <<seriesByFile, events, cfg, sortedEvents, result, dd, per, single, narrow>>

\* lines 331-338
SettleDate ==
  /\ pc = "settle"
  /\ SetRun(SettleBatch(RunState, seriesByFile, cfg, todays, date))
  /\ todays' = <<>>
  /\ pc' = "loop"
  /\ UNCHANGED <<seriesByFile, events, cfg, sortedEvents, i, date, result, dd, per, single, narrow>>

\* one round of flushUpdatesBefore(endYmd + 1) at line 341
FlushToEnd ==
  /\ pc = "loop"
  /\ i >= Len(sortedEvents)
  /\ FlushPending(RunState, cfg.endYmd + 1)
  /\ SetRun(flushOneDate(RunState, seriesByFile, cfg))
  /\ UNCHANGED <<seriesByFile, events, cfg, sortedEvents, i, date, todays, result, pc, dd, per, single, narrow>>

\* lines 343-361
Finish ==
  /\ pc = "loop"
  /\ i >= Len(sortedEvents)
  /\ ~FlushPending(RunState, cfg.endYmd + 1)
  /\ result' = Summary(RunState, cfg)
  /\ pc' = "done"
  /\ UNCHANGED <<seriesByFile, events, cfg, sortedEvents, i, date, todays, cash, positions,
                 trades, equityCurve, totalMarketValue, heap, log, dd, per, single, narrow>>

Next ==
  \/ StartRun
  \/ FlushBeforeDate
  \/ BeginDate
  \/ SettleDate
  \/ FlushToEnd
  \/ Finish

Spec == Init /\ [][Next]_vars

(***************************************************************************)
(* Properties of the replay (simulatePortfolioEqualWeight over the events  *)
(* of buildExecutionEvents), checked under Spec                            *)
(***************************************************************************)
OpenFiles == {f \in Files : Has(positions[f])}

\* sum over the open positions of shares * lastPrice, in money units
MarkedValue ==
  SetSum(OpenFiles, [f \in Files |-> positions[f].shares * positions[f].lastPrice * Scale])

LastPoint == equityCurve[Len(equityCurve)]
EventDates == {sortedEvents[k].date : k \in DOMAIN sortedEvents}
SellLog ==
  LET IsSell(e) == e.type = "sell"
  IN SelectSeq(log, IsSell)
BuyLog ==
  LET IsBuy(e) == e.type = "buy"
  IN SelectSeq(log, IsBuy)

\* C1: complete liquidation: when the run ends no position is open.
C1_CompleteLiquidation == pc = "done" => OpenFiles = {}

\* C2: market-value invariant: totalMarketValue is the sum over the open positions of
\* shares * lastPrice in every state, and wherever an equity point has just been
\* recorded (after a date's settlement, after each propagated date) the recorded
\* equity is cash + that sum.
C2_MarketValueInvariant ==
  /\ totalMarketValue = MarkedValue
  /\ (pc \in {"loop", "done"} /\ equityCurve # <<>>) =>
        LastPoint.equity = cash + MarkedValue

\* C2 witness: a point recorded by a propagated price update that moved a held
\* position's mark away from its entry price.
C2_Witness ==
  /\ pc = "loop"
  /\ equityCurve # <<>>
  /\ LastPoint.date \notin EventDates
  /\ \E f \in OpenFiles : positions[f].lastPrice # positions[f].entry.price

\* C4: sell-before-buy on ties: among the settlements of one date every sell comes
\* before every buy, and the cash the first buy of the date draws on is the cash the
\* last sell of the date left.
C4_SellBeforeBuy ==
  /\ \A x, y \in DOMAIN log :
        (log[x].date = log[y].date /\ log[x].type = "sell" /\ log[y].type = "buy") => x < y
  /\ \A x \in DOMAIN log :
        (x > 1 /\ log[x].date = log[x - 1].date /\ log[x].type = "buy"
           /\ log[x - 1].type = "sell")
        => log[x].cashBefore = log[x - 1].cashAfter

\* C4 witness: a security is exited and re-entered on the same date, and the
\* re-entry is paid out of cash that the exit raised.
C4_Witness ==
  \E x \in DOMAIN log :
     /\ x > 1
     /\ log[x].type = "buy" /\ log[x - 1].type = "sell"
     /\ log[x].date = log[x - 1].date /\ log[x].file = log[x - 1].file
     /\ log[x - 1].cashBefore < log[x].cashBefore - log[x].cashAfter

\* C5: cash is never negative after a settlement.
C5_CashNeverNegative == cash >= 0

\* C7: single position per security: no buy is settled for a security that holds a
\* position, and the buys settled so far are the trade records plus the open
\* positions.
C7_SinglePosition ==
  /\ \A x \in DOMAIN log : log[x].type = "buy" => ~log[x].heldBefore
  /\ Len(BuyLog) = Len(trades) + Cardinality(OpenFiles)

\* C7 witness: a buy event arrives for a security that holds a position, on a date
\* on which there is cash for a lot of it.
C7_Witness ==
  /\ pc = "settle"
  /\ \E k \in DOMAIN todays :
        /\ todays[k].type = "buy"
        /\ Has(positions[todays[k].file])
        /\ ~\E m \in DOMAIN todays : todays[m].type = "sell" /\ todays[m].file = todays[k].file
        /\ canBuyAtBudget(todays[k], cash, 1, cfg)

\* C9: equity curve ordering: the dates of the curve are strictly increasing.
C9_CurveStrictlyIncreasing ==
  \A k \in 1..(Len(equityCurve) - 1) : equityCurve[k].date < equityCurve[k + 1].date

\* C9 witness: a curve in which a propagated date lies between two trade dates.
C9_Witness ==
  \E k \in 2..(Len(equityCurve) - 1) :
     /\ equityCurve[k].date \notin EventDates
     /\ equityCurve[k - 1].date \in EventDates
     /\ equityCurve[k + 1].date \in EventDates

\* the net proceeds the claim states for a trade record, in money units
ClaimedNet(t) ==
  t.shares * t.exitPrice * Scale - t.shares * t.exitPrice * cfg.feeBps
    - t.shares * t.exitPrice * cfg.stampBps

\* the buy's gross plus the buy's fee
ClaimedCostBasis(t) ==
  t.shares * t.entryPrice * Scale + t.shares * t.entryPrice * cfg.feeBps

\* C8: sell settlement arithmetic: the k-th sell credits cash with
\* net = s*p - s*p*feeBps/10000 - s*p*stampBps/10000 and appends the k-th trade record
\* with pnl = net - costBasis and return = pnl / costBasis, costBasis being the buy's
\* gross plus fee (what the buy took out of cash); 100 shares bought at 10 and sold at
\* 11 with zero fees give pnl 100 and return 0.10; selling 100 shares at 10 with
\* feeBps = stampBps = 10 nets 998.
C8_SellArithmetic ==
  /\ Len(SellLog) = Len(trades)
  /\ \A k \in DOMAIN trades :
        LET t == trades[k]
            net == SellLog[k].cashAfter - SellLog[k].cashBefore
        IN /\ net = ClaimedNet(t)
           /\ t.pnl = net - ClaimedCostBasis(t)
           /\ t.ret = <<t.pnl, ClaimedCostBasis(t)>>
           /\ \E b \in DOMAIN log :
                 /\ log[b].type = "buy" /\ log[b].file = t.file
                 /\ log[b].date = t.entryDate
                 /\ log[b].cashBefore - log[b].cashAfter = ClaimedCostBasis(t)
           /\ (t.shares = 100 /\ t.entryPrice = 10 /\ t.exitPrice = 11
                 /\ cfg.feeBps = 0 /\ cfg.stampBps = 0)
              => (t.pnl = 100 * Scale /\ t.ret[1] * 10 = t.ret[2])
           /\ (t.shares = 100 /\ t.exitPrice = 10 /\ cfg.feeBps = 10 /\ cfg.stampBps = 10)
              => net = 998 * Scale

\* C8 witness: 100 shares have been sold at 10 with feeBps = stampBps = 10.
C8_Witness ==
  /\ cfg.feeBps = 10 /\ cfg.stampBps = 10
  /\ \E k \in DOMAIN trades : trades[k].shares = 100 /\ trades[k].exitPrice = 10

\* the round trip of C8 is reached too: 100 shares bought at 10, sold at 11, no fees
C8_RoundTripReached ==
  /\ cfg.feeBps = 0 /\ cfg.stampBps = 0
  /\ \E k \in DOMAIN trades :
        trades[k].shares = 100 /\ trades[k].entryPrice = 10 /\ trades[k].exitPrice = 11

\* what a run settles, the diagnostic reason aside
StripReason(t) ==
  [file |-> t.file, entryDate |-> t.entryDate, exitDate |-> t.exitDate,
   entryPrice |-> t.entryPrice, exitPrice |-> t.exitPrice, shares |-> t.shares,
   pnl |-> t.pnl, ret |-> t.ret]

Outcome(r) ==
  [trades |-> [k \in DOMAIN r.trades |-> StripReason(r.trades[k])],
   equityCurve |-> r.equityCurve, finalEquity |-> r.finalEquity]

RotateLeft(s) == IF s = <<>> THEN s ELSE Append(Tail(s), Head(s))

\* the elements at odd places, then those at even places
Riffle(s) ==
  LET odd == (Len(s) + 1) \div 2
  IN [k \in 1..Len(s) |-> IF k <= odd THEN s[2 * k - 1] ELSE s[2 * (k - odd)]]

Reorderings(s) == {Reverse(s), RotateLeft(s), Riffle(s)}

\* C10: determinism of settlement: a run over the same events in another input order
\* settles the same trades (securities, dates, shares, pnl) and the same equity curve.
C10_OrderIndependent ==
  pc = "done" =>
     \A o \in Reorderings(events) :
        Outcome(simulatePortfolioEqualWeight(seriesByFile, o, cfg)) = Outcome(result)

\* C10 witness: a finished run whose input list was not in sorted order, with two
\* sells of one security tied on a date and trades of both securities.
C10_Witness ==
  /\ pc = "done"
  /\ events # sortedEvents
  /\ \E x, y \in DOMAIN sortedEvents :
        /\ x < y
        /\ sortedEvents[x].date = sortedEvents[y].date
        /\ sortedEvents[x].file = sortedEvents[y].file
        /\ sortedEvents[x].type = "sell" /\ sortedEvents[y].type = "sell"
  /\ \E x, y \in DOMAIN trades : trades[x].file = "a" /\ trades[y].file = "b"

(***************************************************************************)
(* buyWithEqualBudget on its own: one date's buy events for any non-empty  *)
(* set of the securities, each at BasePrice or BasePrice + 1, with cash in *)
(* steps of CashStep and security a optionally held already.               *)
(***************************************************************************)
MaxCashSteps == 7
CashStep == 500

AllocSeries == [datesYmd |-> <<1, 2>>, closeAdj |-> <<BasePrice, BasePrice>>]

\* a position opened before the date of the allocation
HeldBefore == [shares |-> DefaultLot, lastPrice |-> BasePrice, idx |-> 0, nextIdx |-> 1,
               entry |-> [date |-> Null, price |-> BasePrice,
                          costBasis |-> DefaultLot * BasePrice * Scale]]

RECURSIVE BuyEventsOf(_, _, _)
BuyEventsOf(files, price, k) ==
  IF k > Len(FileOrder) THEN <<>>
  ELSE (IF FileOrder[k] \in files
        THEN <<Event(1, "buy", FileOrder[k], 0, price[FileOrder[k]], "signal_entry")>>
        ELSE <<>>)
       \o BuyEventsOf(files, price, k + 1)

InitAlloc ==
  \E files \in (SUBSET Files) \ {{}}, price \in [Files -> {BasePrice, BasePrice + 1}],
     steps \in 1..MaxCashSteps, fs \in FeeSchedules, held \in BOOLEAN :
    /\ seriesByFile = [f \in Files |-> AllocSeries]
    /\ cfg = Config([startYmd |-> 1, endYmd |-> 2], steps * CashStep, fs)
    /\ events = <<>>
    /\ sortedEvents = <<>>
    /\ i = 0
    /\ date = 1
    /\ todays = BuyEventsOf(files, price, 1)
    /\ cash = steps * CashStep * Scale
    /\ positions = [f \in Files |-> IF held /\ f = "a" THEN HeldBefore ELSE NoPos]
    /\ trades = <<>>
    /\ equityCurve = <<>>
    /\ totalMarketValue = IF held THEN DefaultLot * BasePrice * Scale ELSE 0
    /\ heap = <<>>
    /\ result = NoResult
    /\ pc = "alloc"
    /\ log = <<>>
    /\ dd = Idle
    /\ per = NoPlans
    /\ single = Flat
    /\ narrow = NoCandidates

\* line 336: buyWithEqualBudget(buys)
AllocateBuys ==
  /\ pc = "alloc"
  /\ SetRun(buyWithEqualBudget(RunState, seriesByFile, cfg, todays))
  /\ pc' = "allocated"
  /\ UNCHANGED <<seriesByFile, events, cfg, sortedEvents, i, date, todays, result, dd, per, single, narrow>>

NextAlloc == AllocateBuys

SpecAlloc == InitAlloc /\ [][NextAlloc]_vars

(***************************************************************************)
(* buyWithEqualBudget's narrowing loop (lines 241-279), one action per     *)
(* way an iteration ends, over the allocations of InitAlloc                *)
(***************************************************************************)
\* line 244: the candidates that can buy a lot at the equal budget
Buyable(st, c, cands) ==
  LET CanBuy(ev) == canBuyAtBudget(ev, st.cash, Len(cands), c)
  IN SelectSeq(cands, CanBuy)

\* the loop going round with the list it had
KeepCandidates(cands, buyable) == cands

\* line 278: candidates = buyable
NextCandidates(cands, buyable) == buyable

\* lines 237-241
NarrowStart ==
  /\ pc = "alloc"
  /\ narrow' = [candidates |-> Candidates0(RunState, todays), k |-> 0]
  /\ pc' = IF Candidates0(RunState, todays) = <<>> THEN "allocated" ELSE "narrowing"
  /\ UNCHANGED <<seriesByFile, events, cfg, sortedEvents, i, date, todays, cash, positions,
                 trades, equityCurve, totalMarketValue, heap, result, log, dd, per, single>>

\* lines 242-246: every candidate is buyable, the commit loop starts
NarrowAllBuyable ==
  /\ pc = "narrowing"
  /\ Len(Buyable(RunState, cfg, narrow.candidates)) = Len(narrow.candidates)
  /\ narrow' = [narrow EXCEPT !.k = 0]
  /\ pc' = "committing"
  /\ UNCHANGED <<seriesByFile, events, cfg, sortedEvents, i, date, todays, cash, positions,
                 trades, equityCurve, totalMarketValue, heap, result, log, dd, per, single>>

\* lines 246-274: candidates[k] of the commit loop
CommitCandidate ==
  /\ pc = "committing"
  /\ narrow.k < Len(narrow.candidates)
  /\ SetRun(CommitOne(RunState, seriesByFile, cfg, narrow.candidates, narrow.k))
  /\ narrow' = [narrow EXCEPT !.k = narrow.k + 1]
  /\ UNCHANGED <<seriesByFile, events, cfg, sortedEvents, i, date, todays, result, pc, dd, per,
                 single>>

\* line 275
CommitReturn ==
  /\ pc = "committing"
  /\ narrow.k >= Len(narrow.candidates)
  /\ pc' = "allocated"
  /\ UNCHANGED <<seriesByFile, events, cfg, sortedEvents, i, date, todays, cash, positions,
                 trades, equityCurve, totalMarketValue, heap, result, log, dd, per, single,
                 narrow>>

\* lines 242-244 and 277: no candidate is buyable
NarrowGiveUp ==
  /\ pc = "narrowing"
  /\ Len(Buyable(RunState, cfg, narrow.candidates)) # Len(narrow.candidates)
  /\ Buyable(RunState, cfg, narrow.candidates) = <<>>
  /\ pc' = "allocated"
  /\ UNCHANGED <<seriesByFile, events, cfg, sortedEvents, i, date, todays, cash, positions,
                 trades, equityCurve, totalMarketValue, heap, result, log, dd, per, single,
                 narrow>>

\* lines 242-244 and 278: the loop goes round with the buyable candidates
NarrowShrink ==
  /\ pc = "narrowing"
  /\ Len(Buyable(RunState, cfg, narrow.candidates)) # Len(narrow.candidates)
  /\ Buyable(RunState, cfg, narrow.candidates) # <<>>
  /\ narrow' = [narrow EXCEPT !.candidates =
                   NextCandidates(narrow.candidates,
                                  Buyable(RunState, cfg, narrow.candidates))]
  /\ UNCHANGED <<seriesByFile, events, cfg, sortedEvents, i, date, todays, cash, positions,
                 trades, equityCurve, totalMarketValue, heap, result, pc, log, dd, per,
                 single>>

NextNarrow ==
  \/ NarrowStart
  \/ NarrowAllBuyable
  \/ CommitCandidate
  \/ CommitReturn
  \/ NarrowGiveUp
  \/ NarrowShrink

\* the call is not preempted: an enabled step of it is eventually taken
SpecNarrow ==
  /\ InitAlloc /\ [][NextNarrow]_vars
  /\ WF_vars(NarrowStart) /\ WF_vars(NarrowAllBuyable) /\ WF_vars(CommitCandidate)
  /\ WF_vars(CommitReturn) /\ WF_vars(NarrowGiveUp) /\ WF_vars(NarrowShrink)

\* C21: allocator termination: every iteration of the narrowing loop either goes on to
\* commit, or returns with no purchase because no candidate is buyable, or goes round with
\* a strictly shorter, non-empty candidate list taken from the list it had; and every call
\* of buyWithEqualBudget returns.
C21_NarrowingTerminates ==
  /\ [][pc = "narrowing" =>
          \/ pc' = "committing" /\ cash' = cash /\ positions' = positions
          \/ pc' = "allocated" /\ cash' = cash /\ positions' = positions
          \/ /\ pc' = "narrowing"
             /\ Len(narrow'.candidates) < Len(narrow.candidates)
             /\ narrow'.candidates # <<>>
             /\ \A k \in DOMAIN narrow'.candidates :
                   \E j \in DOMAIN narrow.candidates :
                      narrow'.candidates[k] = narrow.candidates[j]]_vars
  /\ <>(pc = "allocated")

\* C21 witness: the loop has gone round: its list is shorter than the one it began with
C21_Witness ==
  /\ pc = "narrowing"
  /\ narrow.candidates # <<>>
  /\ Len(narrow.candidates) < Len(Candidates0(RunState, todays))

\* the case of C3: three candidates at one price p, none held before the date, no
\* fees, and cash for exactly two lots: 2 * p * lot <= cash < 3 * p * lot
ShrinkCase ==
  /\ Len(todays) = 3
  /\ \A k \in DOMAIN todays : todays[k].price = todays[1].price
  /\ \A f \in Files : Has(positions[f]) => positions[f].entry.date = date
  /\ cfg.feeBps = 0 /\ cfg.stampBps = 0
  /\ 2 * todays[1].price * cfg.lot <= cfg.initialCapital
  /\ cfg.initialCapital < 3 * todays[1].price * cfg.lot

\* C3 as claimed: allocator fairness under shrink: in the case above the allocator
\* opens a position of one lot for two of the candidates and none for the third.
C3_BuysTwoSkipsOne ==
  (pc = "allocated" /\ ShrinkCase) =>
     /\ Cardinality(OpenFiles) = 2
     /\ \A f \in OpenFiles : positions[f].shares = cfg.lot

\* C3 as amended: in the case above no candidate is affordable at the equal budget
\* cash / 3, so the allocator opens no position and leaves cash untouched; no
\* candidate is partially filled.
C3_BuysNothingUnderShrink ==
  (pc = "allocated" /\ ShrinkCase) =>
     /\ OpenFiles = {}
     /\ cash = cfg.initialCapital * Scale
     /\ log = <<>>

\* C3 witness: the allocator has run in the case above.
C3_Witness == pc = "allocated" /\ ShrinkCase

(***************************************************************************)
(* computeMaxDrawdown on its own: curves of up to MaxCurveLen points, one  *)
(* per date, dated 1, 2, ...                                               *)
(***************************************************************************)
MaxCurveLen == 4
DdEquities == {0, 90, 100, 110, 120, NaNEquity}
NoReturn == [maxDrawdown |-> <<0, 0>>]

Curves == UNION {[1..n -> DdEquities] : n \in 0..MaxCurveLen}

InitDd ==
  \E eq \in Curves :
    /\ dd = [curve |-> [k \in DOMAIN eq |-> [date |-> k, equity |-> eq[k]]],
             s |-> DdStart, ret |-> NoReturn]
    /\ seriesByFile = [f \in Files |-> NoSeries]
    /\ cfg = Config([startYmd |-> 1, endYmd |-> MaxCurveLen], 1, <<0, 0>>)
    /\ events = <<>>
    /\ sortedEvents = <<>>
    /\ i = 0
    /\ date = Null
    /\ todays = <<>>
    /\ cash = 0
    /\ positions = [f \in Files |-> NoPos]
    /\ trades = <<>>
    /\ equityCurve = <<>>
    /\ totalMarketValue = 0
    /\ heap = <<>>
    /\ result = NoResult
    /\ pc = "dd"
    /\ log = <<>>
    /\ per = NoPlans
    /\ single = Flat
    /\ narrow = NoCandidates

\* lines 13-24: one round of the loop
DdIterate ==
  /\ pc = "dd"
  /\ dd.s.k < Len(dd.curve)
  /\ dd' = [dd EXCEPT !.s = DdStep(dd.s, At(dd.curve, dd.s.k))]
  /\ UNCHANGED simVars

\* line 26
DdReturn ==
  /\ pc = "dd"
  /\ dd.s.k >= Len(dd.curve)
  /\ dd' = [dd EXCEPT !.ret = [maxDrawdown |-> dd.s.maxDd, maxDrawdownFrom |-> dd.s.from,
                               maxDrawdownTo |-> dd.s.to]]
  /\ pc' = "ddDone"
  /\ UNCHANGED <<seriesByFile, events, cfg, sortedEvents, i, date, todays, cash, positions,
                 trades, equityCurve, totalMarketValue, heap, result, log, per, single, narrow>>

NextDd == DdIterate \/ DdReturn

SpecDd == InitDd /\ [][NextDd]_vars

\* the finite points of the curve up to index k
FinitePrefix(curve, k) == {m \in 1..k : curve[m].equity # NaNEquity}

\* the running peak at index k, a finite point
PeakAt(curve, k) ==
  LET best == CHOOSE m \in FinitePrefix(curve, k) :
                 \A n \in FinitePrefix(curve, k) : curve[n].equity <= curve[m].equity
  IN curve[best].equity

\* the date of the peak the drawdown at index k is measured from: the first point
\* at which the running peak took its value
PeakDateAt(curve, k) ==
  curve[CHOOSE m \in FinitePrefix(curve, k) :
          /\ curve[m].equity = PeakAt(curve, k)
          /\ \A n \in FinitePrefix(curve, k) : curve[n].equity = PeakAt(curve, k) => m <= n].date

\* the points with a drawdown: finite, under a positive running peak
Troughs(curve) ==
  {k \in FinitePrefix(curve, Len(curve)) :
     PeakAt(curve, k) > 0 /\ curve[k].equity < PeakAt(curve, k)}

\* the drawdown at k is the greatest, and k is the first point that reaches it
IsMaxTrough(curve, k) ==
  \A m \in Troughs(curve) :
     LET dk == <<PeakAt(curve, k) - curve[k].equity, PeakAt(curve, k)>>
         dm == <<PeakAt(curve, m) - curve[m].equity, PeakAt(curve, m)>>
     IN /\ ~FracLess(dk[1], dk[2], dm[1], dm[2])
        /\ FracEq(dk[1], dk[2], dm[1], dm[2]) => k <= m

\* C6: drawdown summary: the result is the maximum of (peak - equity) / peak, with the
\* date of the peak it is measured from and the date of the trough, the first point
\* that reaches the maximum; for [100, 120, 90, 110] on dates 1..4 it is 0.25, from
\* the date of the 120 point (2) to the date of the 90 point (3).
C6_DrawdownSummary ==
  pc = "ddDone" =>
     /\ \A k \in Troughs(dd.curve) :
           IsMaxTrough(dd.curve, k) =>
              /\ FracEq(dd.ret.maxDrawdown[1], dd.ret.maxDrawdown[2],
                        PeakAt(dd.curve, k) - dd.curve[k].equity, PeakAt(dd.curve, k))
              /\ dd.ret.maxDrawdownTo = dd.curve[k].date
              /\ dd.ret.maxDrawdownFrom = PeakDateAt(dd.curve, k)
     /\ [k \in DOMAIN dd.curve |-> dd.curve[k].equity] = <<100, 120, 90, 110>>
        => /\ dd.ret.maxDrawdown[1] * 4 = dd.ret.maxDrawdown[2]
           /\ dd.ret.maxDrawdownFrom = 2
           /\ dd.ret.maxDrawdownTo = 3

\* what the code does return, for the record: the maximum and the trough date are as
\* C6 says, and maxDrawdownFrom is the trough date as well
C6_FromIsTroughDate ==
  pc = "ddDone" =>
     /\ \A k \in Troughs(dd.curve) :
           IsMaxTrough(dd.curve, k) =>
              /\ FracEq(dd.ret.maxDrawdown[1], dd.ret.maxDrawdown[2],
                        PeakAt(dd.curve, k) - dd.curve[k].equity, PeakAt(dd.curve, k))
              /\ dd.ret.maxDrawdownTo = dd.curve[k].date
              /\ dd.ret.maxDrawdownFrom = dd.curve[k].date
     /\ Troughs(dd.curve) = {} =>
           /\ dd.ret.maxDrawdown[1] = 0
           /\ dd.ret.maxDrawdownFrom = Null /\ dd.ret.maxDrawdownTo = Null

(***************************************************************************)
(* buildExecutionEvents on its own: one security whose close differs from  *)
(* date to date, with an optional missing quote, any entry and exit        *)
(* signals, both execution timings and windows that leave out the first    *)
(* or the last dates of the series.                                        *)
(***************************************************************************)
BuilderCloses(n, hole) == [k \in 1..n |-> IF k = hole THEN 0 ELSE BasePrice + k]

BuilderSeries ==
  {[datesYmd |-> ds, closeAdj |-> BuilderCloses(SeriesLen, ho),
    entrySignal |-> en, exitSignal |-> ex] :
     ds \in {Dates(0, SeriesLen), GapDates(MaxShift, SeriesLen)},
     ho \in 0..SeriesLen, en \in Signals(SeriesLen), ex \in Signals(SeriesLen)}

BuilderWindows == Windows \cup {[startYmd |-> 2, endYmd |-> 2],
                                [startYmd |-> 1, endYmd |-> 2]}

InitBuilder ==
  \E s \in BuilderSeries, w \in BuilderWindows, ex \in ExecutionModes :
    /\ seriesByFile = [f \in {"a"} |-> s]
    /\ cfg = [startYmd |-> w.startYmd, endYmd |-> w.endYmd, execution |-> ex]
    /\ events = <<>>
    /\ sortedEvents = <<>>
    /\ i = 0
    /\ date = Null
    /\ todays = <<>>
    /\ cash = 0
    /\ positions = [f \in Files |-> NoPos]
    /\ trades = <<>>
    /\ equityCurve = <<>>
    /\ totalMarketValue = 0
    /\ heap = <<>>
    /\ result = NoResult
    /\ pc = "build"
    /\ log = <<>>
    /\ dd = Idle
    /\ per = NoPlans
    /\ single = Flat
    /\ narrow = NoCandidates

\* lines 61-125
BuildEvents ==
  /\ pc = "build"
  /\ events' = buildExecutionEvents("a", seriesByFile["a"], seriesByFile["a"].entrySignal,
                                    seriesByFile["a"].exitSignal, cfg.startYmd, cfg.endYmd,
                                    cfg.execution)
  /\ pc' = "built"
  /\ UNCHANGED <<seriesByFile, cfg, sortedEvents, i, date, todays, cash, positions, trades,
                 equityCurve, totalMarketValue, heap, result, log, dd, per, single, narrow>>

NextBuilder == BuildEvents

SpecBuilder == InitBuilder /\ [][NextBuilder]_vars

\* the signal of the given type at index k
SignalAt(s, type, k) ==
  IF type = "sell" THEN At(s.exitSignal, k) ELSE At(s.entrySignal, k)

SignalReason(type) == IF type = "sell" THEN "signal_exit" ELSE "signal_entry"

\* index j is inside the window with a finite positive close
Tradable(s, j) ==
  /\ j >= 0 /\ j < Len(s.closeAdj)
  /\ inRange(s.datesYmd, j, cfg.startYmd, cfg.endYmd)
  /\ IsFinitePrice(At(s.closeAdj, j))

\* the event a signal of the type executed at index j must produce is in the list
Emitted(s, type, j) ==
  \E e \in DOMAIN events :
     events[e] = Event(At(s.datesYmd, j), type, "a", j, At(s.closeAdj, j), SignalReason(type))

\* C15 as claimed: event emission rule: every signal whose execution index is inside
\* the window with a finite positive close produces its event, also when the index of
\* the signal itself lies before startYmd.
C15_EmitsForEverySignal ==
  pc = "built" =>
     LET s == seriesByFile["a"]
     IN \A k \in 0..(Len(s.closeAdj) - 1), type \in {"sell", "buy"} :
           (SignalAt(s, type, k) /\ Tradable(s, execIndex(cfg.execution, k)))
              => Emitted(s, type, execIndex(cfg.execution, k))

\* C15 as amended: every signal at an index inside the window whose execution index is
\* inside the window with a finite positive close produces its event, dated at the
\* execution index with that close as price; and every signal event of the list comes
\* from such a signal, so a signal dated before startYmd produces nothing.
C15_EmitsForInWindowSignal ==
  pc = "built" =>
     LET s == seriesByFile["a"]
         n == Len(s.closeAdj)
         Due(type, j) ==
           \E k \in 0..(n - 1) :
              /\ SignalAt(s, type, k)
              /\ inRange(s.datesYmd, k, cfg.startYmd, cfg.endYmd)
              /\ execIndex(cfg.execution, k) = j
              /\ Tradable(s, j)
     IN /\ \A j \in 0..(n - 1), type \in {"sell", "buy"} :
              Due(type, j) <=> Emitted(s, type, j)
        /\ \A e \in DOMAIN events :
              events[e].reason # "force_exit_eof" =>
                 /\ events[e].reason = SignalReason(events[e].type)
                 /\ events[e].execIdx \in 0..(n - 1)
                 /\ Due(events[e].type, events[e].execIdx)
                 /\ events[e] = Event(At(s.datesYmd, events[e].execIdx), events[e].type, "a",
                                      events[e].execIdx, At(s.closeAdj, events[e].execIdx),
                                      events[e].reason)

\* C15 witness: the builder has run on a series with an entry signal dated before
\* startYmd whose next close is inside the window, and with an exit signal inside
\* the window that produced its event.
C15_Witness ==
  /\ pc = "built"
  /\ cfg.execution = "next_close"
  /\ LET s == seriesByFile["a"]
     IN /\ \E k \in 0..(Len(s.closeAdj) - 1) :
              /\ At(s.entrySignal, k)
              /\ ~inRange(s.datesYmd, k, cfg.startYmd, cfg.endYmd)
              /\ Tradable(s, k + 1)
        /\ \E k \in 0..(Len(s.closeAdj) - 1) :
              /\ At(s.exitSignal, k)
              /\ inRange(s.datesYmd, k, cfg.startYmd, cfg.endYmd)
              /\ Tradable(s, k + 1)
              /\ Emitted(s, "sell", k + 1)

\* the in-window indices with a finite positive close
TradableIdx(s) == {k \in 0..(Len(s.closeAdj) - 1) : Tradable(s, k)}

ForcedExits == {e \in DOMAIN events : events[e].reason = "force_exit_eof"}

\* C16: forced liquidation event: the list holds exactly one force_exit_eof sell when
\* the security has an in-window observation with a finite positive close, dated at the
\* last such observation and priced at its close, and none otherwise; no signal buy is
\* dated later than it.
C16_ForcedExit ==
  pc = "built" =>
     LET s == seriesByFile["a"]
         good == TradableIdx(s)
     IN /\ good = {} => ForcedExits = {}
        /\ good # {} =>
              /\ Cardinality(ForcedExits) = 1
              /\ \A e \in ForcedExits :
                    /\ events[e].type = "sell"
                    /\ events[e].file = "a"
                    /\ events[e].execIdx \in good
                    /\ \A m \in good : m <= events[e].execIdx
                    /\ events[e].date = At(s.datesYmd, events[e].execIdx)
                    /\ events[e].price = At(s.closeAdj, events[e].execIdx)
                    /\ \A b \in DOMAIN events :
                          events[b].type = "buy" => events[b].date <= events[e].date

\* C16 witness: the forced exit is dated before the last in-window date of the series,
\* which has no quote, and the list holds a signal buy.
C16_Witness ==
  /\ pc = "built"
  /\ LET s == seriesByFile["a"]
     IN \E e \in ForcedExits :
           /\ \E k \in 0..(Len(s.closeAdj) - 1) :
                 /\ inRange(s.datesYmd, k, cfg.startYmd, cfg.endYmd)
                 /\ At(s.datesYmd, k) > events[e].date
           /\ \E b \in DOMAIN events : events[b].type = "buy"

(***************************************************************************)
(* C19, C20: the commit loop of buyWithEqualBudget, under SpecAlloc        *)
(***************************************************************************)
\* the state buyWithEqualBudget started from: the cash of InitAlloc and the position
\* held before the date, if any
BeforeAlloc ==
  [cash |-> cfg.initialCapital * Scale,
   positions |-> [f \in Files |-> IF Has(positions[f]) /\ positions[f].entry.date # date
                                  THEN positions[f] ELSE NoPos]]

\* the candidates the narrowing loop committed
Committed == CommittedCandidates(BeforeAlloc, cfg, Candidates0(BeforeAlloc, todays))

OpenedToday(f) == Has(positions[f]) /\ positions[f].entry.date = date

\* the fee of a buy of qty shares at price px, in money units
BuyFee(qty, px) == qty * px * cfg.feeBps * (Scale \div BpsDenominator)

\* C19: every committed candidate is bought: each member of the committed set ends the
\* date with a position of at least one lot, opened on the date, whose gross plus fee
\* was deducted from cash.
C19_CommittedAllBought ==
  pc = "allocated" =>
     \A k \in DOMAIN Committed :
        LET ev == Committed[k]
        IN /\ OpenedToday(ev.file)
           /\ positions[ev.file].shares >= cfg.lot
           /\ \E e \in DOMAIN log :
                 /\ log[e].type = "buy" /\ log[e].file = ev.file
                 /\ log[e].cashBefore - log[e].cashAfter
                      = positions[ev.file].shares * ev.price * Scale
                        + BuyFee(positions[ev.file].shares, ev.price)

\* the allocation as C20 states it: candidate k, in order, gets
\* lot * floor(min(cash / heads, cash) / (price * lot)) shares and cash goes down by
\* gross + fee
RECURSIVE ClaimedAllocation(_, _, _)
ClaimedAllocation(cashNow, candidates, k) ==
  IF k >= Len(candidates) THEN [cash |-> cashNow, qty |-> <<>>]
  ELSE LET ev == At(candidates, k)
           heads == Len(candidates) - k
           budget == cashNow \div heads
           least == IF budget < cashNow THEN budget ELSE cashNow
           qty == cfg.lot * FloorDiv(least, ev.price * cfg.lot * Scale)
           rest == ClaimedAllocation(cashNow - qty * ev.price * Scale - BuyFee(qty, ev.price),
                                     candidates, k + 1)
       IN [cash |-> rest.cash, qty |-> <<qty>> \o rest.qty]

\* C20: allocation quantity: each committed candidate holds the claimed quantity (no
\* position when it is 0), cash went down by the sum of gross + fee, and every position
\* opened holds a positive multiple of lot.
C20_AllocationQuantity ==
  pc = "allocated" =>
     LET claimed == ClaimedAllocation(BeforeAlloc.cash, Committed, 0)
     IN /\ \A k \in DOMAIN Committed :
              IF claimed.qty[k] > 0
              THEN OpenedToday(Committed[k].file)
                   /\ positions[Committed[k].file].shares = claimed.qty[k]
              ELSE ~OpenedToday(Committed[k].file)
        /\ cash = claimed.cash
        /\ \A f \in Files :
              OpenedToday(f) => /\ positions[f].shares > 0
                                /\ positions[f].shares % cfg.lot = 0

(***************************************************************************)
(* C17: occupancy of the price-propagation heap, under Spec                *)
(***************************************************************************)
HeapEntries(f) == {k \in DOMAIN heap : heap[k].file = f}

\* the position of f has a next observation that pushNextIfAny schedules
HasNextObservation(f) ==
  /\ Has(positions[f])
  /\ positions[f].nextIdx < Len(seriesByFile[f].datesYmd)
  /\ At(seriesByFile[f].datesYmd, positions[f].nextIdx) <= cfg.endYmd

\* f was sold on the date being replayed
SoldToday(f) ==
  \E e \in DOMAIN log : log[e].type = "sell" /\ log[e].file = f /\ log[e].date = date

C17_StaleEntryReached ==
  \E f \in Files : ~Has(positions[f]) /\ HeapEntries(f) # {}

(***************************************************************************)
(* C18: the marks against a rescan of the series, under Spec               *)
(***************************************************************************)
\* the indices of f's series dated up to d
ObservedUpTo(f, d) ==
  {k \in 0..(Len(seriesByFile[f].datesYmd) - 1) : At(seriesByFile[f].datesYmd, k) <= d}

MaxOf(S) == CHOOSE k \in S : \A m \in S : m <= k

\* the mark a rescan gives f on date d: the close at the greatest index dated up to d
\* with a finite positive close, the entry price if there is none
RescanMark(f, d) ==
  LET quoted == {k \in ObservedUpTo(f, d) : IsFinitePrice(At(seriesByFile[f].closeAdj, k))}
  IN IF quoted = {} THEN positions[f].entry.price
     ELSE At(seriesByFile[f].closeAdj, MaxOf(quoted))

RescanValue == SetSum(OpenFiles, [f \in OpenFiles |->
                                    positions[f].shares * RescanMark(f, LastPoint.date) * Scale])

\* C18: incremental mark-to-market equals a full rescan: where an equity point has
\* just been recorded for date D, every open position is marked at its last finite
\* positive close dated up to D, its index is that of its last observation dated up
\* to D, with or without a quote, and the recorded equity is cash plus the rescanned
\* value.
C18_MarksEqualRescan ==
  (pc \in {"loop", "done"} /\ equityCurve # <<>>) =>
     /\ \A f \in OpenFiles :
           /\ positions[f].lastPrice = RescanMark(f, LastPoint.date)
           /\ positions[f].idx = MaxOf(ObservedUpTo(f, LastPoint.date))
     /\ totalMarketValue = RescanValue
     /\ LastPoint.equity = cash + RescanValue

\* C18 witness: a point recorded for a propagated date on which a held security has
\* no quote: its index has advanced to that date and its mark is an earlier close.
C18_Witness ==
  /\ pc = "loop"
  /\ equityCurve # <<>>
  /\ LastPoint.date \notin EventDates
  /\ \E f \in OpenFiles :
        /\ At(seriesByFile[f].datesYmd, positions[f].idx) = LastPoint.date
        /\ ~IsFinitePrice(At(seriesByFile[f].closeAdj, positions[f].idx))
        /\ positions[f].idx > 0

(***************************************************************************)
(* simulatePortfolioEqualWeight over a window narrower than the one the    *)
(* events were built for: the event list holds events dated before         *)
(* startYmd and after endYmd, and the series have observations after       *)
(* endYmd.                                                                 *)
(***************************************************************************)
FullWindow == [startYmd |-> 1, endYmd |-> SeriesLen + MaxShift]

NarrowWindows == {[startYmd |-> 2, endYmd |-> SeriesLen],
                  [startYmd |-> 1, endYmd |-> SeriesLen],
                  [startYmd |-> 1, endYmd |-> 2],
                  [startYmd |-> 2, endYmd |-> 2]}

InitWindow ==
  \E w \in NarrowWindows, cap \in InitialCapitals, ex \in ExecutionModes,
     sa \in SeriesA, sb \in SeriesB,
     ena \in Signals(SeriesLen), exa \in Signals(SeriesLen), enb \in OneSignal(SeriesLen) :
    LET ser == [f \in Files |-> IF f = "a" THEN sa ELSE IF f = "b" THEN sb ELSE NoSeries]
        evs == buildExecutionEvents("a", sa, ena, exa,
                                    FullWindow.startYmd, FullWindow.endYmd, ex)
               \o buildExecutionEvents("b", sb, enb, NoSignal(SeriesLen),
                                       FullWindow.startYmd, FullWindow.endYmd, ex)
    IN /\ seriesByFile = ser
       /\ cfg = Config(w, cap, <<0, 0>>)
       /\ events = evs
       /\ sortedEvents = <<>>
       /\ i = 0
       /\ date = Null
       /\ todays = <<>>
       /\ cash = cap * Scale
       /\ positions = [f \in Files |-> NoPos]
       /\ trades = <<>>
       /\ equityCurve = <<>>
       /\ totalMarketValue = 0
       /\ heap = <<>>
       /\ result = NoResult
       /\ pc = "start"
       /\ log = <<>>
       /\ dd = Idle
       /\ per = NoPlans
       /\ single = Flat
       /\ narrow = NoCandidates


(***************************************************************************)
(* simulatePortfolioPeriodicIdeal (src/src/backtestPortfolio.js 368-567).  *)
(* Shares are not lot-aligned here: cash, shares, cost, market value and   *)
(* equity are exact fractions <<numerator, denominator>> in lowest terms   *)
(* with a positive denominator; prices stay integers, 0 for a missing      *)
(* quote.                                                                  *)
(***************************************************************************)
RECURSIVE Gcd(_, _)
Gcd(x, y) == IF y = 0 THEN x ELSE Gcd(y, x % y)

Abs(x) == IF x < 0 THEN -x ELSE x

Rat(n, d) == LET g == Gcd(Abs(n), d) IN <<n \div g, d \div g>>
RatAdd(x, y) == Rat(x[1] * y[2] + y[1] * x[2], x[2] * y[2])
RatSub(x, y) == Rat(x[1] * y[2] - y[1] * x[2], x[2] * y[2])
RatMul(x, y) == Rat(x[1] * y[1], x[2] * y[2])
\* x / y for y > 0
RatDiv(x, y) == Rat(x[1] * y[2], x[2] * y[1])
RatPos(x) == x[1] > 0

\* upperBound of seriesUtils: binary search for the first index whose element is > x
RECURSIVE upperBoundFrom(_, _, _, _)
upperBoundFrom(sortedAsc, x, lo, hi) ==
  IF lo >= hi THEN lo
  ELSE LET mid == (lo + hi) \div 2
       IN IF At(sortedAsc, mid) <= x THEN upperBoundFrom(sortedAsc, x, mid + 1, hi)
          ELSE upperBoundFrom(sortedAsc, x, lo, mid)

upperBound(sortedAsc, x) == upperBoundFrom(sortedAsc, x, 0, Len(sortedAsc))

indexOfDate(sortedDatesYmd, ymd) ==
  LET k == upperBound(sortedDatesYmd, ymd) - 1
  IN IF k >= 0 /\ k < Len(sortedDatesYmd) /\ At(sortedDatesYmd, k) = ymd THEN k ELSE -1

\* Array.prototype.sort((a, b) => a - b)
RECURSIVE InsertAsc(_, _)
InsertAsc(s, x) ==
  IF s = <<>> THEN <<x>>
  ELSE IF x < s[Len(s)] THEN Append(InsertAsc(SubSeq(s, 1, Len(s) - 1), x), s[Len(s)])
  ELSE Append(s, x)

RECURSIVE SortAsc(_)
SortAsc(s) == IF s = <<>> THEN s ELSE InsertAsc(SortAsc(SubSeq(s, 1, Len(s) - 1)), s[Len(s)])

\* lines 387-390
MarketDates(marketDatesAsc, c) ==
  LET Keep(d) == d >= c.startYmd /\ d <= c.endYmd
  IN SortAsc(SelectSeq(marketDatesAsc, Keep))

\* lines 394-401: the plans the loop keeps
PlanKept(p, c) ==
  /\ ~(p.buyYmd < c.startYmd \/ p.sellYmd > c.endYmd)
  /\ ~(p.buyYmd >= p.sellYmd)

\* buyPlanByDate.get(d): the last kept plan that buys on d
BuyPlanIdx(periodPlans, c, d) ==
  {k \in DOMAIN periodPlans :
     /\ PlanKept(periodPlans[k], c) /\ periodPlans[k].buyYmd = d
     /\ \A m \in DOMAIN periodPlans :
           (PlanKept(periodPlans[m], c) /\ periodPlans[m].buyYmd = d) => m <= k}

\* sellPlansByDate.has(d)
HasSellPlan(periodPlans, c, d) ==
  \E k \in DOMAIN periodPlans : PlanKept(periodPlans[k], c) /\ periodPlans[k].sellYmd = d

\* the loop without the price propagation of line 535
applyPriceUpdateAtSkipped(st, ser, c, dateInclusive) == st

\* lines 422-441
RECURSIVE applyPriceUpdateAt(_, _, _, _)
applyPriceUpdateAt(st, ser, c, dateInclusive) ==
  IF Len(st.heap) > 0 /\ HeapPeek(st.heap).date = dateInclusive
  THEN LET file == HeapPeek(st.heap).file
           st1 == [st EXCEPT !.heap = HeapPop(st.heap)]
           pos == st1.positions[file]
           s == ser[file]
           idx == pos.nextIdx
       IN IF ~Has(pos) THEN applyPriceUpdateAt(st1, ser, c, dateInclusive)
          ELSE IF idx < 0 \/ idx >= Len(s.datesYmd)
               THEN applyPriceUpdateAt(st1, ser, c, dateInclusive)
          ELSE IF At(s.datesYmd, idx) # dateInclusive
               THEN applyPriceUpdateAt(st1, ser, c, dateInclusive)
          ELSE LET px == At(s.closeAdj, idx)
                   st2 == IF IsFinitePrice(px)
                          THEN [st1 EXCEPT
                                  !.totalMarketValue =
                                     RatAdd(st1.totalMarketValue,
                                            RatMul(pos.shares, <<px - pos.lastPrice, 1>>)),
                                  !.positions[file].lastPrice = px]
                          ELSE st1
                   st3 == [st2 EXCEPT !.positions[file].idx = idx,
                                      !.positions[file].nextIdx = idx + 1]
               IN applyPriceUpdateAt(pushNextIfAny(st3, ser, c, file), ser, c, dateInclusive)
  ELSE st

\* the keys of the positions map in insertion order
RECURSIVE PositionOrder(_, _)
PositionOrder(positionsMap, left) ==
  IF left = {} THEN <<>>
  ELSE LET f == CHOOSE g \in left : \A h \in left : positionsMap[g].ord <= positionsMap[h].ord
       IN <<f>> \o PositionOrder(positionsMap, left \ {f})

\* the body of the loop of sellAllAtClose for one position (lines 445-474)
sellAtClose(st, c, file, dateYmd, reason) ==
  LET pos == st.positions[file]
      px == pos.lastPrice
      gross == RatMul(pos.shares, <<px, 1>>)
      fee == RatMul(gross, Rat(c.feeBps, BpsDenominator))
      stamp == RatMul(gross, Rat(c.stampBps, BpsDenominator))
      net == RatSub(RatSub(gross, fee), stamp)
      pnl == RatSub(net, pos.entry.cost)
  IN IF ~IsFinitePrice(px) THEN [st EXCEPT !.positions[file] = NoPos]
     ELSE [st EXCEPT
             !.cash = RatAdd(st.cash, net),
             !.totalMarketValue = RatSub(st.totalMarketValue, gross),
             !.trades = Append(st.trades,
                          [file |-> file, periodKey |-> pos.entry.periodKey,
                           entryDate |-> pos.entry.date, exitDate |-> dateYmd,
                           entryPrice |-> pos.entry.price, exitPrice |-> px,
                           shares |-> pos.shares, pnl |-> pnl,
                           ret |-> IF RatPos(pos.entry.cost)
                                   THEN RatDiv(pnl, pos.entry.cost) ELSE <<0, 0>>,
                           reason |-> reason]),
             !.positions[file] = NoPos]

RECURSIVE sellEach(_, _, _, _, _)
sellEach(st, c, files, dateYmd, reason) ==
  IF files = <<>> THEN st
  ELSE sellEach(sellAtClose(st, c, Head(files), dateYmd, reason), c, Tail(files),
                dateYmd, reason)

\* lines 443-476
sellAllAtClose(st, c, dateYmd, reason) ==
  sellEach(st, c, PositionOrder(st.positions, {f \in DOMAIN st.positions : Has(st.positions[f])}),
           dateYmd, reason)

\* String(x).trim() on the pick ids of the model
Trim(x) == IF x = " b" THEN "b" ELSE x

\* lines 481-484: picks.map(String.trim).filter(Boolean)
CleanPicks(raw) ==
  LET NonEmpty(x) == x # ""
  IN SelectSeq([k \in DOMAIN raw |-> Trim(raw[k])], NonEmpty)

\* the test that keeps a pick without the sell-date half of lines 494-498
PickTradableOnBuyDate(ser, plan, file) ==
  /\ file \in DOMAIN ser
  /\ LET s == ser[file]
         buyIdx == indexOfDate(s.datesYmd, plan.buyYmd)
     IN /\ ~(buyIdx < 0)
        /\ IsFinitePrice(At(s.closeAdj, buyIdx))

\* lines 489-499: the test that keeps a pick
PickTradable(ser, plan, file) ==
  /\ file \in DOMAIN ser
  /\ LET s == ser[file]
         buyIdx == indexOfDate(s.datesYmd, plan.buyYmd)
         sellIdx == indexOfDate(s.datesYmd, plan.sellYmd)
     IN /\ ~(buyIdx < 0 \/ sellIdx < 0 \/ sellIdx <= buyIdx)
        /\ IsFinitePrice(At(s.closeAdj, buyIdx))
        /\ IsFinitePrice(At(s.closeAdj, sellIdx))

\* lines 487-500
TradablePicks(ser, plan) ==
  LET Keep(file) == PickTradable(ser, plan, file)
      kept == SelectSeq(CleanPicks(plan.picks), Keep)
  IN [k \in DOMAIN kept |->
        [file |-> kept[k],
         buyIdx |-> indexOfDate(ser[kept[k]].datesYmd, plan.buyYmd),
         buyPx |-> At(ser[kept[k]].closeAdj, indexOfDate(ser[kept[k]].datesYmd, plan.buyYmd))]]

\* the next insertion rank of the positions map
NextOrd(positionsMap) ==
  LET open == {f \in DOMAIN positionsMap : Has(positionsMap[f])}
  IN IF open = {} THEN 1
     ELSE 1 + positionsMap[CHOOSE g \in open :
                             \A h \in open : positionsMap[h].ord <= positionsMap[g].ord].ord

\* the loop body buying budgetPer / buyPx shares, the fee left out of the budget
buyOneFeeOnTop(st, ser, c, plan, t, budgetPer) ==
  LET shares == RatDiv(budgetPer, <<t.buyPx, 1>>)
      old == st.positions[t.file]
  IN pushNextIfAny(
       [st EXCEPT
          !.positions[t.file] =
             [shares |-> shares, lastPrice |-> t.buyPx, idx |-> t.buyIdx,
              nextIdx |-> t.buyIdx + 1,
              ord |-> IF Has(old) THEN old.ord ELSE NextOrd(st.positions),
              entry |-> [date |-> plan.buyYmd, price |-> t.buyPx, cost |-> budgetPer,
                         periodKey |-> plan.periodKey]],
          !.totalMarketValue = RatAdd(st.totalMarketValue, RatMul(shares, <<t.buyPx, 1>>))],
       ser, c, t.file)

\* the body of the loop of lines 508-531 for one tradable pick
buyOne(st, ser, c, plan, t, budgetPer) ==
  LET feeRate == Rat(c.feeBps, BpsDenominator)
      gross == IF RatPos(feeRate) THEN RatDiv(budgetPer, RatAdd(<<1, 1>>, feeRate))
               ELSE budgetPer
      shares == RatDiv(gross, <<t.buyPx, 1>>)
      old == st.positions[t.file]
  IN IF ~RatPos(shares) THEN [st EXCEPT !.cash = RatAdd(st.cash, budgetPer)]
     ELSE pushNextIfAny(
            [st EXCEPT
               !.positions[t.file] =
                  [shares |-> shares, lastPrice |-> t.buyPx, idx |-> t.buyIdx,
                   nextIdx |-> t.buyIdx + 1,
                   ord |-> IF Has(old) THEN old.ord ELSE NextOrd(st.positions),
                   entry |-> [date |-> plan.buyYmd, price |-> t.buyPx, cost |-> budgetPer,
                              periodKey |-> plan.periodKey]],
               !.totalMarketValue = RatAdd(st.totalMarketValue,
                                           RatMul(shares, <<t.buyPx, 1>>))],
            ser, c, t.file)

RECURSIVE buyEach(_, _, _, _, _, _)
buyEach(st, ser, c, plan, tradable, budgetPer) ==
  IF tradable = <<>> THEN st
  ELSE buyEach(buyOne(st, ser, c, plan, Head(tradable), budgetPer), ser, c, plan,
               Tail(tradable), budgetPer)

\* lines 478-532
buyEqualWeightAtClose(st, ser, c, plan) ==
  LET tradable == TradablePicks(ser, plan)
      budgetPer == RatDiv(st.cash, <<Len(tradable), 1>>)
  IN IF CleanPicks(plan.picks) = <<>> THEN st
     ELSE IF tradable = <<>> THEN st
     ELSE IF ~RatPos(budgetPer) THEN st
     ELSE buyEach([st EXCEPT !.cash = <<0, 1>>], ser, c, plan, tradable, budgetPer)

\* the body of the loop over the market dates (lines 534-547)
periodicDate(st, ser, c, periodPlans, d) ==
  LET st1 == applyPriceUpdateAt(st, ser, c, d)
      st2 == IF HasSellPlan(periodPlans, c, d) THEN sellAllAtClose(st1, c, d, "period_exit")
             ELSE st1
      buying == BuyPlanIdx(periodPlans, c, d)
      st3 == IF buying # {}
             THEN buyEqualWeightAtClose(st2, ser, c, periodPlans[CHOOSE k \in buying : TRUE])
             ELSE st2
  IN [st3 EXCEPT !.equityCurve =
        pushEquityPoint(st3.equityCurve, d, RatAdd(st3.cash, st3.totalMarketValue))]

\* a fraction curve on a common denominator, for computeMaxDrawdown: the drawdown
\* (peak - equity) / peak does not depend on the unit
RECURSIVE CommonDenominator(_)
CommonDenominator(curve) ==
  IF curve = <<>> THEN 1
  ELSE LET rest == CommonDenominator(Tail(curve))
           d == Head(curve).equity[2]
       IN (rest \div Gcd(rest, d)) * d

OnCommonDenominator(curve) ==
  LET cd == CommonDenominator(curve)
  IN [k \in DOMAIN curve |->
        [date |-> curve[k].date, equity |-> curve[k].equity[1] * (cd \div curve[k].equity[2])]]

\* lines 549-566
PeriodicSummary(st, c) ==
  LET finalEquity == RatAdd(st.cash, st.totalMarketValue)
      Win(t) == RatPos(t.pnl)
  IN [done |-> TRUE,
      finalEquity |-> finalEquity,
      totalReturn |-> RatSub(RatDiv(finalEquity, <<c.initialCapital, 1>>), <<1, 1>>),
      maxDrawdown |-> computeMaxDrawdown(OnCommonDenominator(st.equityCurve)).maxDrawdown,
      trades |-> st.trades,
      winRate |-> <<Len(SelectSeq(st.trades, Win)), Len(st.trades)>>,
      equityCurve |-> st.equityCurve]

(***************************************************************************)
(* buildPeriodPlans (src/src/dateUtils.js 41-74).  Dates of the model are  *)
(* day numbers: the key of a week, month or quarter is the number of the   *)
(* block of DaysPerPeriod consecutive day numbers the date falls in.       *)
(***************************************************************************)
DaysPerPeriod == 2

Frequencies == {"D", "W"}

\* keyFn of lines 58-59
PeriodKey(ymd) == (ymd - 1) \div DaysPerPeriod

SeqRange(s) == {s[k] : k \in DOMAIN s}

MinOf(S) == CHOOSE k \in S : \A m \in S : k <= m

\* lines 47-55
DailyPlans(dates) ==
  [k \in 1..(Len(dates) - 1) |->
     [periodKey |-> dates[k], buyYmd |-> dates[k], sellYmd |-> dates[k + 1]]]

\* lines 57-73: one group per key, sorted by buyYmd
RECURSIVE GroupPlans(_, _)
GroupPlans(dates, keys) ==
  IF keys = {} THEN <<>>
  ELSE LET first == CHOOSE k \in keys :
                       \A m \in keys :
                          MinOf({d \in SeqRange(dates) : PeriodKey(d) = k})
                            <= MinOf({d \in SeqRange(dates) : PeriodKey(d) = m})
           group == {d \in SeqRange(dates) : PeriodKey(d) = first}
       IN <<[periodKey |-> first, buyYmd |-> MinOf(group), sellYmd |-> MaxOf(group)]>>
          \o GroupPlans(dates, keys \ {first})

buildPeriodPlans(tradingDatesAsc, freq) ==
  IF tradingDatesAsc = <<>> THEN <<>>
  ELSE IF freq = "D" THEN DailyPlans(tradingDatesAsc)
  ELSE GroupPlans(tradingDatesAsc, {PeriodKey(d) : d \in SeqRange(tradingDatesAsc)})

(***************************************************************************)
(* The inputs of a periodic run.  Security a is observed on the dates      *)
(* 1..PeriodicLen with closes 3, 2, 3, ... and an optional missing quote;  *)
(* security b closes at 3, is absent on the first or the second date or on *)
(* none, and may have no quote on its last date.  The market dates are the *)
(* union of the series' dates inside the window, the plans are those of    *)
(* buildPeriodPlans with the picks the strategy returned for each.         *)
(***************************************************************************)
PeriodicLen == SeriesLen + 1
PeriodicCapital == 12
PeriodicFees == {<<0, 0>>, <<2500, 0>>, <<0, 2500>>, <<2500, 2500>>}

PeriodicSeriesA ==
  {[datesYmd |-> Dates(0, PeriodicLen),
    closeAdj |-> [k \in 1..PeriodicLen |-> IF k = hole THEN 0 ELSE 2 + (k % 2)]] :
     hole \in 0..PeriodicLen}

\* s without its element at index skip (0: none)
Without(s, skip) ==
  LET Keep(d) == d # skip
  IN SelectSeq(s, Keep)

PeriodicSeriesB ==
  {[datesYmd |-> Without(Dates(0, PeriodicLen), skip),
    closeAdj |-> [k \in 1..Len(Without(Dates(0, PeriodicLen), skip)) |->
                    IF ~quoted /\ k = Len(Without(Dates(0, PeriodicLen), skip))
                    THEN 0 ELSE 3]] :
     skip \in 0..2, quoted \in BOOLEAN}

PickLists == {<<>>, <<"a">>, <<"b", "a">>, <<"zz", " b", "", "a">>}

PeriodicWindows == {[startYmd |-> 1, endYmd |-> PeriodicLen],
                    [startYmd |-> 2, endYmd |-> PeriodicLen]}

PeriodicConfig(w, cap, fs) ==
  [startYmd |-> w.startYmd, endYmd |-> w.endYmd, initialCapital |-> cap,
   feeBps |-> fs[1], stampBps |-> fs[2]]

\* the caller's marketDates: the dates of all series inside the window, ascending
UnionDates(ser, w) ==
  LET all == UNION {SeqRange(ser[f].datesYmd) : f \in DOMAIN ser}
      Keep(d) == d \in all /\ d >= w.startYmd /\ d <= w.endYmd
  IN SelectSeq(Dates(0, PeriodicLen), Keep)

WithPicks(plans, picks) ==
  [k \in DOMAIN plans |->
     [periodKey |-> plans[k].periodKey, buyYmd |-> plans[k].buyYmd,
      sellYmd |-> plans[k].sellYmd, picks |-> picks[k]]]

\* the state variables a periodic run starts from, apart from cfg
PeriodicInputs(ser, marketDatesAsc, plans) ==
  /\ seriesByFile = ser
  /\ per = [marketDatesAsc |-> marketDatesAsc, periodPlans |-> plans, marketDates |-> <<>>]
  /\ events = <<>>
  /\ sortedEvents = <<>>
  /\ i = 0
  /\ date = Null
  /\ todays = <<>>
  /\ cash = <<PeriodicCapital, 1>>
  /\ positions = [f \in Files |-> NoPos]
  /\ trades = <<>>
  /\ equityCurve = <<>>
  /\ totalMarketValue = <<0, 1>>
  /\ heap = <<>>
  /\ result = NoResult
  /\ pc = "periodic"
  /\ log = <<>>
  /\ dd = Idle
  /\ single = Flat
  /\ narrow = NoCandidates

InitPeriodic ==
  \E sa \in PeriodicSeriesA, sb \in PeriodicSeriesB, freq \in Frequencies,
     w \in PeriodicWindows, fs \in PeriodicFees, picks \in [1..(PeriodicLen - 1) -> PickLists] :
    LET ser == [f \in {"a", "b"} |-> IF f = "a" THEN sa ELSE sb]
        marketDatesAsc == UnionDates(ser, w)
        plans == buildPeriodPlans(marketDatesAsc, freq)
    IN /\ cfg = PeriodicConfig(w, PeriodicCapital, fs)
       /\ PeriodicInputs(ser, marketDatesAsc, WithPicks(plans, picks))

\* lines 379-407: validation, the market dates, the plans
PeriodicStart ==
  /\ pc = "periodic"
  /\ ValidPeriodicConfig(cfg)
  /\ per' = [per EXCEPT !.marketDates = MarketDates(per.marketDatesAsc, cfg)]
  /\ cash' = <<cfg.initialCapital, 1>>
  /\ pc' = "dates"
  /\ UNCHANGED <<seriesByFile, events, cfg, sortedEvents, i, date, todays, positions,
                 trades, equityCurve, totalMarketValue, heap, result, log, dd, single, narrow>>

\* lines 379-382 when a check throws
RejectPeriodic ==
  /\ pc = "periodic"
  /\ ~ValidPeriodicConfig(cfg)
  /\ result' = Thrown
  /\ pc' = "thrown"
  /\ UNCHANGED <<seriesByFile, events, cfg, sortedEvents, i, date, todays, cash, positions,
                 trades, equityCurve, totalMarketValue, heap, log, dd, per, single, narrow>>

\* lines 534-547: one market date
PeriodicDate ==
  /\ pc = "dates"
  /\ i < Len(per.marketDates)
  /\ SetRun(periodicDate(RunState, seriesByFile, cfg, per.periodPlans, At(per.marketDates, i)))
  /\ date' = At(per.marketDates, i)
  /\ i' = i + 1
  /\ UNCHANGED <<seriesByFile, events, cfg, sortedEvents, todays, result, pc, dd, per, single, narrow>>

\* lines 549-566
PeriodicFinish ==
  /\ pc = "dates"
  /\ i >= Len(per.marketDates)
  /\ result' = PeriodicSummary(RunState, cfg)
  /\ pc' = "periodicDone"
  /\ UNCHANGED <<seriesByFile, events, cfg, sortedEvents, i, date, todays, cash, positions,
                 trades, equityCurve, totalMarketValue, heap, log, dd, per, single, narrow>>

NextPeriodic == PeriodicStart \/ PeriodicDate \/ PeriodicFinish

SpecPeriodic == InitPeriodic /\ [][NextPeriodic]_vars

(***************************************************************************)
(* C11, C12: the periodic run, under SpecPeriodic                          *)
(***************************************************************************)
\* the close of security f on date d, 0 if f has no observation on d
CloseOn(f, d) ==
  LET s == seriesByFile[f]
      at == {k \in DOMAIN s.datesYmd : s.datesYmd[k] = d}
  IN IF at = {} THEN 0 ELSE s.closeAdj[CHOOSE k \in at : TRUE]

KeptPlans == {k \in DOMAIN per.periodPlans : PlanKept(per.periodPlans[k], cfg)}

\* the plan of the period a position or a trade record belongs to
PlanOfKey(key) == {k \in KeptPlans : per.periodPlans[k].periodKey = key}

\* C11: periodic mode enters and exits at the period's closes: every trade record has
\* the buy date of its plan as entryDate with the security's close of that date as
\* entryPrice, and the sell date of the same plan as exitDate with the security's
\* close of that date as exitPrice; once a date is processed, every open position
\* belongs to a plan bought by then and not yet due for sale.
C11_PeriodCloses ==
  /\ \A t \in DOMAIN trades :
        /\ PlanOfKey(trades[t].periodKey) # {}
        /\ \A k \in PlanOfKey(trades[t].periodKey) :
              /\ trades[t].entryDate = per.periodPlans[k].buyYmd
              /\ trades[t].exitDate = per.periodPlans[k].sellYmd
              /\ trades[t].entryPrice = CloseOn(trades[t].file, per.periodPlans[k].buyYmd)
              /\ trades[t].exitPrice = CloseOn(trades[t].file, per.periodPlans[k].sellYmd)
              /\ trades[t].entryPrice > 0 /\ trades[t].exitPrice > 0
  /\ \A f \in OpenFiles :
        /\ PlanOfKey(positions[f].entry.periodKey) # {}
        /\ \A k \in PlanOfKey(positions[f].entry.periodKey) :
              /\ per.periodPlans[k].buyYmd = positions[f].entry.date
              /\ per.periodPlans[k].buyYmd <= date
              /\ date < per.periodPlans[k].sellYmd
  /\ pc = "periodicDone" => OpenFiles = {}

\* C11 witness: two trades of one security in consecutive periods, the first sold at
\* a close that differs from its entry price, on a date that also opened the second.
C11_Witness ==
  \E t, u \in DOMAIN trades :
     /\ t < u
     /\ trades[t].file = trades[u].file
     /\ trades[t].exitDate = trades[u].entryDate
     /\ trades[t].exitPrice # trades[t].entryPrice

\* the picks of a plan once trimmed, without the empty ones
PickSet(plan) == {Trim(plan.picks[k]) : k \in DOMAIN plan.picks} \ {""}

\* the pick names a security of the universe that has a finite positive close on both
\* dates of the plan
Quoted(plan, pick) ==
  /\ pick \in DOMAIN seriesByFile
  /\ CloseOn(pick, plan.buyYmd) > 0
  /\ CloseOn(pick, plan.sellYmd) > 0

\* the plan that bought on the date just processed
BoughtOn(d) == {k \in KeptPlans : per.periodPlans[k].buyYmd = d}

\* C12: missing-price picks are skipped for the whole period and never abort the run:
\* once a buy date is processed, the positions opened on it are exactly the picks of
\* its plan that are in the universe with a finite positive close on the buy date and
\* on the sell date; the run raises no error and every market date is processed.
C12_SkipsUnquotedPicks ==
  /\ (pc = "dates" /\ i > 0) =>
        \A k \in BoughtOn(date) :
           {f \in Files : Has(positions[f]) /\ positions[f].entry.date = date}
             = {p \in PickSet(per.periodPlans[k]) : Quoted(per.periodPlans[k], p)}
  /\ pc = "periodicDone" =>
        /\ "error" \notin DOMAIN result
        /\ i = Len(per.marketDates)
        /\ Len(equityCurve) = Len(per.marketDates)

\* C12 witness: a buy date whose plan picked an unknown id, a security without a
\* quote on one of the plan's dates and a security that was bought.
C12_Witness ==
  /\ pc = "dates" /\ i > 0
  /\ \E k \in BoughtOn(date) :
        /\ "zz" \in PickSet(per.periodPlans[k])
        /\ \E p \in PickSet(per.periodPlans[k]) :
              p \in DOMAIN seriesByFile /\ ~Quoted(per.periodPlans[k], p)
        /\ \E p \in PickSet(per.periodPlans[k]) \cap Files :
              Has(positions[p]) /\ positions[p].entry.date = date

(***************************************************************************)
(* C14: window containment.  Both simulators run over a window narrower    *)
(* than the one their events, market dates and plans were made for.        *)
(***************************************************************************)
NarrowPeriodicWindows == {[startYmd |-> 2, endYmd |-> PeriodicLen - 1],
                          [startYmd |-> 1, endYmd |-> PeriodicLen - 1],
                          [startYmd |-> 2, endYmd |-> PeriodicLen]}

InitPeriodicWindow ==
  \E sb \in PeriodicSeriesB, freq \in Frequencies, w \in NarrowPeriodicWindows,
     picks \in [1..(PeriodicLen - 1) -> {<<"a">>, <<"b", "a">>}] :
    LET sa == [datesYmd |-> Dates(0, PeriodicLen),
               closeAdj |-> [k \in 1..PeriodicLen |-> 2 + (k % 2)]]
        ser == [f \in {"a", "b"} |-> IF f = "a" THEN sa ELSE sb]
        marketDatesAsc == Dates(0, PeriodicLen)
        plans == buildPeriodPlans(marketDatesAsc, freq)
    IN /\ cfg = PeriodicConfig(w, PeriodicCapital, <<0, 0>>)
       /\ PeriodicInputs(ser, marketDatesAsc, WithPicks(plans, picks))

InitAnyWindow == InitWindow \/ InitPeriodicWindow

NextWindow == Next \/ NextPeriodic

SpecWindow == InitAnyWindow /\ [][NextWindow]_vars

InsideWindow(d) == d >= cfg.startYmd /\ d <= cfg.endYmd

\* C14: window containment: every settled event, every trade record's entryDate and
\* exitDate and every equity point is dated inside [startYmd, endYmd], and the last
\* observation applied to a position, like every pending one, is dated up to endYmd.
C14_WindowContainment ==
  /\ \A e \in DOMAIN sortedEvents : InsideWindow(sortedEvents[e].date)
  /\ \A e \in DOMAIN log : InsideWindow(log[e].date)
  /\ \A t \in DOMAIN trades :
        InsideWindow(trades[t].entryDate) /\ InsideWindow(trades[t].exitDate)
  /\ \A p \in DOMAIN equityCurve : InsideWindow(equityCurve[p].date)
  /\ \A f \in OpenFiles :
        /\ InsideWindow(positions[f].entry.date)
        /\ At(seriesByFile[f].datesYmd, positions[f].idx) <= cfg.endYmd
        /\ positions[f].lastPrice = RescanMark(f, At(seriesByFile[f].datesYmd, positions[f].idx))
  /\ \A h \in DOMAIN heap : heap[h].date <= cfg.endYmd

\* C14 witness: a finished run whose event list held events dated before startYmd and
\* after endYmd, that closed a trade, and that ends with a position whose series has an
\* observation after endYmd.
C14_Witness ==
  /\ pc = "done"
  /\ \E e \in DOMAIN events : events[e].date < cfg.startYmd
  /\ \E e \in DOMAIN events : events[e].date > cfg.endYmd
  /\ trades # <<>>
  /\ \E f \in OpenFiles :
        \E k \in 0..(Len(seriesByFile[f].datesYmd) - 1) :
           At(seriesByFile[f].datesYmd, k) > cfg.endYmd

(***************************************************************************)
(* simulateLongOnly (src/src/backtest.js 29-195): one security, its        *)
(* signals, money in units of 1/Scale as in the portfolio replay           *)
(***************************************************************************)
\* lines 44-49
ValidLongOnlyConfig(c) ==
  /\ IsFiniteNumber(c.startYmd) /\ IsFiniteNumber(c.endYmd)
  /\ IsFiniteNumber(c.initialCapital) /\ ~(c.initialCapital <= 0)
  /\ c.execution \in {"close", "next_close"}
  /\ IsFiniteNumber(c.lot) /\ ~(c.lot <= 0)
  /\ IsFiniteNumber(c.feeBps) /\ ~(c.feeBps < 0)
  /\ IsFiniteNumber(c.stampBps) /\ ~(c.stampBps < 0)

\* lines 51-54
SameLengths(s) ==
  LET n == Len(s.closeAdj)
  IN Len(s.datesYmd) = n /\ Len(s.entrySignal) = n /\ Len(s.exitSignal) = n

\* lines 65-68: datesYmd[k] is undefined, and so not finite, outside the array
inRangeAt(s, c, k) ==
  /\ k >= 0 /\ k < Len(s.datesYmd)
  /\ At(s.datesYmd, k) >= c.startYmd /\ At(s.datesYmd, k) <= c.endYmd

\* line 75
canExec(s, c, k, j) == j >= 0 /\ j < Len(s.closeAdj) /\ inRangeAt(s, c, k) /\ inRangeAt(s, c, j)

\* lines 97-116 and 154-172: the sale of all shares at px on exitDate
longOnlySell(st, c, px, exitDate, reason) ==
  LET gross == st.shares * px * Scale
      fee == st.shares * px * (c.feeBps + c.stampBps) * (Scale \div BpsDenominator)
      cash1 == st.cash + gross - fee
      pnl == cash1 - st.entry.equityAfterBuy
      ret == IF st.entry.equityAfterBuy > 0 THEN <<pnl, st.entry.equityAfterBuy>>
             ELSE <<0, 0>>
  IN [st EXCEPT !.cash = cash1,
                !.trades = Append(@, [entryDate |-> st.entry.execDate,
                                      exitDate |-> exitDate,
                                      entryPrice |-> st.entry.execPrice,
                                      exitPrice |-> px, shares |-> st.shares,
                                      pnl |-> pnl, ret |-> ret, reason |-> reason]),
                !.shares = 0,
                !.entry = NoEntry]

\* lines 92-118
signalExit(st, s, c, k) ==
  LET j == execIndex(c.execution, k)
  IN IF st.shares > 0 /\ At(s.exitSignal, k) /\ canExec(s, c, k, j)
        /\ IsFinitePrice(At(s.closeAdj, j))
     THEN longOnlySell(st, c, At(s.closeAdj, j), At(s.datesYmd, j), "signal_exit")
     ELSE st

\* lines 120-144
signalEntry(st, s, c, k) ==
  LET j == execIndex(c.execution, k)
  IN IF st.shares = 0 /\ At(s.entrySignal, k) /\ canExec(s, c, k, j)
        /\ IsFinitePrice(At(s.closeAdj, j))
     THEN LET px == At(s.closeAdj, j)
              lots == FloorDiv(st.cash, px * c.lot * Scale)
              qty == lots * c.lot
              gross == qty * px * Scale
              fee == qty * px * c.feeBps * (Scale \div BpsDenominator)
              totalCost == gross + fee
          IN IF qty > 0 /\ totalCost <= st.cash
             THEN [st EXCEPT !.cash = st.cash - totalCost,
                             !.shares = qty,
                             !.entry = [execDate |-> At(s.datesYmd, j),
                                        execPrice |-> px,
                                        cashAfterBuy |-> st.cash - totalCost,
                                        equityAfterBuy |-> st.cash - totalCost + gross]]
             ELSE st
     ELSE st

\* index k of the loop with the entry block ahead of the exit block
longOnlyIndexBuysFirst(st, s, c, k) ==
  LET close == At(s.closeAdj, k)
      lastValidClose == IF IsFinitePrice(close) THEN close ELSE st.lastValidClose
      equity == st.cash + st.shares * lastValidClose * Scale
      st1 == [st EXCEPT !.lastValidClose = lastValidClose,
                        !.equityCurve = IF inRangeAt(s, c, k)
                                        THEN Append(@, [date |-> At(s.datesYmd, k),
                                                        equity |-> equity])
                                        ELSE @]
  IN IF inRangeAt(s, c, k) THEN signalExit(signalEntry(st1, s, c, k), s, c, k) ELSE st1

\* lines 77-145: index k of the loop
longOnlyIndex(st, s, c, k) ==
  LET close == At(s.closeAdj, k)
      lastValidClose == IF IsFinitePrice(close) THEN close ELSE st.lastValidClose
      equity == st.cash + st.shares * lastValidClose * Scale
      st1 == [st EXCEPT !.lastValidClose = lastValidClose,
                        !.equityCurve = IF inRangeAt(s, c, k)
                                        THEN Append(@, [date |-> At(s.datesYmd, k),
                                                        equity |-> equity])
                                        ELSE @]
  IN IF inRangeAt(s, c, k) THEN signalEntry(signalExit(st1, s, c, k), s, c, k) ELSE st1

\* Array.prototype.lastIndexOf, 0-based, -1 when absent
RECURSIVE lastIndexOfFrom(_, _, _)
lastIndexOfFrom(arr, x, k) ==
  IF k < 0 THEN k ELSE IF At(arr, k) = x THEN k ELSE lastIndexOfFrom(arr, x, k - 1)

lastIndexOf(arr, x) == lastIndexOfFrom(arr, x, Len(arr) - 1)

\* lines 147-173
forceExit(st, s, c) ==
  IF c.forceExitEof /\ st.shares > 0 /\ Len(st.equityCurve) > 0
  THEN LET last == st.equityCurve[Len(st.equityCurve)]
           px == At(s.closeAdj, lastIndexOf(s.datesYmd, last.date))
           execPx == IF IsFinitePrice(px) THEN px ELSE st.lastValidClose
       IN IF IsFinitePrice(execPx)
          THEN longOnlySell(st, c, execPx, last.date, "force_exit_eof")
          ELSE st
  ELSE st

\* lines 1-5, on a ratio kept as <<numerator, denominator>>
clamp01(x) == IF x[1] < 0 THEN <<0, 1>> ELSE IF x[1] > x[2] THEN <<1, 1>> ELSE x

\* lines 175-194; avgTradeRet, a mean of floats that nothing else reads, is left out
longOnlySummary(st, c) ==
  LET finalEquity == IF st.shares = 0 THEN st.cash
                     ELSE IF IsFinitePrice(st.lastValidClose)
                          THEN st.cash + st.shares * st.lastValidClose * Scale
                          ELSE NaNEquity
      Win(t) == t.pnl > 0
  IN [done |-> TRUE,
      finalEquity |-> finalEquity,
      totalReturn |-> <<finalEquity - c.initialCapital * Scale, c.initialCapital * Scale>>,
      maxDrawdown |-> clamp01(computeMaxDrawdown(st.equityCurve).maxDrawdown),
      trades |-> st.trades,
      winRate |-> <<Len(SelectSeq(st.trades, Win)), Len(st.trades)>>,
      equityCurve |-> st.equityCurve]

LongState == [cash |-> cash, shares |-> single.shares, entry |-> single.entry,
              lastValidClose |-> single.lastValidClose, trades |-> trades,
              equityCurve |-> equityCurve]

SetLong(st) ==
  /\ cash' = st.cash
  /\ single' = [shares |-> st.shares, entry |-> st.entry,
                lastValidClose |-> st.lastValidClose]
  /\ trades' = st.trades
  /\ equityCurve' = st.equityCurve

\* lines 44-63 when no check throws
LongOnlyStart ==
  /\ pc = "long"
  /\ ValidLongOnlyConfig(cfg) /\ SameLengths(seriesByFile["a"])
  /\ cash' = cfg.initialCapital * Scale
  /\ single' = Flat
  /\ i' = 0
  /\ pc' = "indices"
  /\ UNCHANGED <<seriesByFile, events, cfg, sortedEvents, date, todays, positions, trades,
                 equityCurve, totalMarketValue, heap, result, log, dd, per, narrow>>

\* lines 44-54 when a check throws
RejectLongOnly ==
  /\ pc = "long"
  /\ ~(ValidLongOnlyConfig(cfg) /\ SameLengths(seriesByFile["a"]))
  /\ result' = Thrown
  /\ pc' = "thrown"
  /\ UNCHANGED <<seriesByFile, events, cfg, sortedEvents, i, date, todays, cash, positions,
                 trades, equityCurve, totalMarketValue, heap, log, dd, per, single, narrow>>

\* lines 77-145: one index
LongOnlyIndex ==
  /\ pc = "indices"
  /\ i < Len(seriesByFile["a"].closeAdj)
  /\ SetLong(longOnlyIndex(LongState, seriesByFile["a"], cfg, i))
  /\ i' = i + 1
  /\ UNCHANGED <<seriesByFile, events, cfg, sortedEvents, date, todays, positions,
                 totalMarketValue, heap, result, pc, log, dd, per, narrow>>

\* lines 147-194: the forced exit and the summary
LongOnlyFinish ==
  /\ pc = "indices"
  /\ i >= Len(seriesByFile["a"].closeAdj)
  /\ SetLong(forceExit(LongState, seriesByFile["a"], cfg))
  /\ result' = longOnlySummary(forceExit(LongState, seriesByFile["a"], cfg), cfg)
  /\ pc' = "longDone"
  /\ UNCHANGED <<seriesByFile, events, cfg, sortedEvents, i, date, todays, positions,
                 totalMarketValue, heap, log, dd, per, narrow>>

NextLongOnly == LongOnlyStart \/ RejectLongOnly \/ LongOnlyIndex \/ LongOnlyFinish

(***************************************************************************)
(* The three simulators called with options that the checks at their head  *)
(* accept or reject: one option of an accepted configuration is replaced   *)
(* by a value that is zero, negative or not a finite number.               *)
(***************************************************************************)
OptionFaults ==
  {[field |-> f, value |-> v] : f \in {"initialCapital", "lot"}, v \in {0, -1, NaN}}
  \cup {[field |-> f, value |-> v] : f \in {"feeBps", "stampBps"}, v \in {-1, NaN}}
  \cup {[field |-> f, value |-> NaN] : f \in {"startYmd", "endYmd"}}

\* options that replace nothing, or only turn the window over (endYmd before startYmd)
OptionsKept == {[field |-> "lot", value |-> DefaultLot], [field |-> "endYmd", value |-> 0]}

WithOption(c, o) == [c EXCEPT ![o.field] = o.value]

InitEqualWeightConfig ==
  \E o \in OptionFaults \cup OptionsKept, ex \in ExecutionModes,
     w \in Windows, ho \in {0, SeriesLen}, sb \in SeriesB,
     ena \in Signals(SeriesLen), exa \in Signals(SeriesLen), enb \in OneSignal(SeriesLen) :
    LET sa == [datesYmd |-> Dates(0, SeriesLen), closeAdj |-> Closes(SeriesLen, 0, ho)]
        ser == [f \in Files |-> IF f = "a" THEN sa ELSE IF f = "b" THEN sb ELSE NoSeries]
        evs == buildExecutionEvents("a", sa, ena, exa,
                                    w.startYmd, w.endYmd, ex)
               \o buildExecutionEvents("b", sb, enb, NoSignal(SeriesLen),
                                       w.startYmd, w.endYmd, ex)
    IN /\ seriesByFile = ser
       /\ cfg = WithOption(Config(w, 2100, <<10, 10>>), o)
       /\ events = evs
       /\ sortedEvents = <<>>
       /\ i = 0
       /\ date = Null
       /\ todays = <<>>
       /\ cash = 0
       /\ positions = [f \in Files |-> NoPos]
       /\ trades = <<>>
       /\ equityCurve = <<>>
       /\ totalMarketValue = 0
       /\ heap = <<>>
       /\ result = NoResult
       /\ pc = "start"
       /\ log = <<>>
       /\ dd = Idle
       /\ per = NoPlans
       /\ single = Flat
       /\ narrow = NoCandidates

\* the caller passes lot to the periodic simulator too (part_005 line 78)
InitPeriodicConfig ==
  \E o \in OptionFaults \cup OptionsKept, sa \in PeriodicSeriesA, sb \in PeriodicSeriesB,
     freq \in Frequencies :
    LET w == [startYmd |-> 1, endYmd |-> PeriodicLen]
        ser == [f \in {"a", "b"} |-> IF f = "a" THEN sa ELSE sb]
        marketDatesAsc == UnionDates(ser, w)
        plans == buildPeriodPlans(marketDatesAsc, freq)
    IN /\ cfg = WithOption(Config(w, PeriodicCapital, <<0, 0>>), o)
       /\ PeriodicInputs(ser, marketDatesAsc,
                         WithPicks(plans, [k \in 1..(PeriodicLen - 1) |-> <<"b", "a">>]))

\* a series whose signal arrays are one element short
ShortSignals ==
  [datesYmd |-> Dates(0, SeriesLen), closeAdj |-> BuilderCloses(SeriesLen, 0),
   entrySignal |-> NoSignal(SeriesLen - 1), exitSignal |-> NoSignal(SeriesLen - 1)]

InitLongOnlyConfig ==
  \E o \in OptionFaults \cup OptionsKept, ex \in ExecutionModes \cup {"open"},
     s \in BuilderSeries \cup {ShortSignals}, force \in BOOLEAN :
    /\ seriesByFile = [f \in {"a"} |-> s]
    /\ cfg = WithOption([startYmd |-> 1, endYmd |-> SeriesLen, initialCapital |-> 1500,
                         execution |-> ex, lot |-> DefaultLot, feeBps |-> 10,
                         stampBps |-> 10, forceExitEof |-> force], o)
    /\ events = <<>>
    /\ sortedEvents = <<>>
    /\ i = 0
    /\ date = Null
    /\ todays = <<>>
    /\ cash = 0
    /\ positions = [f \in Files |-> NoPos]
    /\ trades = <<>>
    /\ equityCurve = <<>>
    /\ totalMarketValue = 0
    /\ heap = <<>>
    /\ result = NoResult
    /\ pc = "long"
    /\ log = <<>>
    /\ dd = Idle
    /\ per = NoPlans
    /\ single = Flat
    /\ narrow = NoCandidates

InitConfig == InitEqualWeightConfig \/ InitPeriodicConfig \/ InitLongOnlyConfig

NextConfig == Next \/ RejectRun \/ NextPeriodic \/ RejectPeriodic \/ NextLongOnly

SpecConfig == InitConfig /\ [][NextConfig]_vars

(***************************************************************************)
(* C13: configuration errors                                               *)
(***************************************************************************)
IsPeriodicRun == "periodPlans" \in DOMAIN per
IsLongOnlyRun == "execution" \in DOMAIN cfg
IsEqualWeightRun == ~IsPeriodicRun /\ ~IsLongOnlyRun

NotANumber(x) == x = NaN
NonPositive(x) == x # NaN /\ x <= 0
Negative(x) == x # NaN /\ x < 0

\* a capital, fee, tax or date option that is zero or negative where it must not be, or
\* not a finite number
BadMoneyOrDates ==
  \/ NotANumber(cfg.startYmd) \/ NotANumber(cfg.endYmd)
  \/ NotANumber(cfg.initialCapital) \/ NonPositive(cfg.initialCapital)
  \/ NotANumber(cfg.feeBps) \/ Negative(cfg.feeBps)
  \/ NotANumber(cfg.stampBps) \/ Negative(cfg.stampBps)

BadLot == NotANumber(cfg.lot) \/ NonPositive(cfg.lot)

\* the call raised, or has not run yet, and nothing was settled or recorded
RaisedBeforeSimulation ==
  /\ pc \in {"start", "periodic", "long", "thrown"}
  /\ pc = "thrown" => result = Thrown
  /\ sortedEvents = <<>> /\ log = <<>> /\ trades = <<>> /\ equityCurve = <<>>
  /\ ~result.done

\* C13 as stated: each of the three simulators raises before any event is settled, with
\* no equity point and no trade record, whenever initialCapital is non-positive, lot
\* is non-positive, feeBps or stampBps is negative or a date bound is malformed.
C13_AllRejectBadOptions == (BadMoneyOrDates \/ BadLot) => RaisedBeforeSimulation

\* C13 amended: each of the three simulators raises before any event is settled, with no
\* equity point and no trade record, whenever startYmd or endYmd is not a finite
\* number, initialCapital is not a finite positive number, or feeBps or stampBps is
\* not a finite non-negative number; simulatePortfolioEqualWeight and simulateLongOnly
\* raise as well when lot is not a finite positive number, while
\* simulatePortfolioPeriodicIdeal has no lot option and runs whatever lot it is given.
\* Nothing else raises at the head of a run, a window with endYmd before startYmd
\* included, except simulateLongOnly's checks of execution and of the array lengths.
C13_RejectsBadOptions ==
  /\ (BadMoneyOrDates \/ (~IsPeriodicRun /\ BadLot)) => RaisedBeforeSimulation
  /\ pc = "thrown" =>
        \/ BadMoneyOrDates
        \/ ~IsPeriodicRun /\ BadLot
        \/ IsLongOnlyRun /\ cfg.execution \notin {"close", "next_close"}
        \/ IsLongOnlyRun /\ ~SameLengths(seriesByFile["a"])

\* C13 witness: simulatePortfolioEqualWeight, given events to settle and a lot that is
\* not positive, has raised.
C13_Witness ==
  /\ IsEqualWeightRun /\ pc = "thrown"
  /\ NonPositive(cfg.lot) /\ events # <<>>

\* simulatePortfolioPeriodicIdeal, given a lot that is not positive, has recorded
\* equity points and a trade
C13_PeriodicIgnoresLot ==
  /\ IsPeriodicRun /\ pc = "periodicDone"
  /\ NonPositive(cfg.lot) /\ equityCurve # <<>> /\ trades # <<>>

\* simulateLongOnly has raised on a negative stampBps
C13_LongOnlyRaised == IsLongOnlyRun /\ pc = "thrown" /\ Negative(cfg.stampBps)

(***************************************************************************)
(* C22: no rebalancing, checked on the step of SpecAlloc                   *)
(***************************************************************************)
\* the securities the step opened a position for
Entering == {f \in Files : ~Has(positions[f]) /\ Has(positions'[f])}

\* C22: no rebalancing: the date's allocation leaves every position that was open before
\* it as it was (shares, entry, last mark, indices), settles no buy for a security that
\* held one, and takes the cash it spends, and adds the market value it adds, for the
\* newly entering securities only.
C22_NoRebalancing ==
  [][pc = "alloc" =>
       /\ \A f \in Files : Has(positions[f]) => positions'[f] = positions[f]
       /\ \A e \in DOMAIN log' : ~Has(positions[log'[e].file])
       /\ cash - cash' =
            SetSum(Entering, [f \in Files |-> IF f \in Entering
                                             THEN positions'[f].entry.costBasis ELSE 0])
       /\ totalMarketValue' - totalMarketValue =
            SetSum(Entering, [f \in Files |-> IF f \in Entering
                                             THEN positions'[f].shares
                                                  * positions'[f].lastPrice * Scale
                                             ELSE 0])]_vars

\* C22 witness: the allocation was given a buy for a security held since before the date
\* and opened a position for another one.
C22_Witness ==
  /\ pc = "allocated"
  /\ \E k \in DOMAIN todays :
        Has(positions[todays[k].file]) /\ positions[todays[k].file].entry.date # date
  /\ \E f \in Files : OpenedToday(f)

(***************************************************************************)
(* C23: events that break the replay's invariants, on the settling step    *)
(***************************************************************************)
\* the batch holds a sell for a security with no open position
SellWithoutPosition ==
  \E k \in DOMAIN todays : todays[k].type = "sell" /\ ~Has(positions[todays[k].file])

\* the batch holds a buy for a security whose position stays open through the sells
BuyOfHeld ==
  \E k \in DOMAIN todays :
     /\ todays[k].type = "buy" /\ Has(positions[todays[k].file])
     /\ \A j \in DOMAIN todays :
           ~(todays[j].type = "sell" /\ todays[j].file = todays[k].file)

\* C23: invariant violations raise: a date whose batch holds a sell for a security with
\* no open position, or a buy for a security that holds one, ends in a raised error and
\* not in a settled date.
C23_ViolationsRaise ==
  [][(pc = "settle" /\ (SellWithoutPosition \/ BuyOfHeld)) => pc' = "thrown"]_vars

(***************************************************************************)
(* Picks as a strategy function may return them: the caller (part_005      *)
(* lines 1059-1072) trims them and drops unknown ids, but a security named  *)
(* twice reaches buyEqualWeightAtClose twice.                              *)
(***************************************************************************)
StrategyPicks == {<<>>, <<"a", "a">>, <<"b", "a">>, <<"zz", "a", " b", "a">>}

InitPicks ==
  \E sa \in PeriodicSeriesA, sb \in PeriodicSeriesB, freq \in Frequencies,
     w \in PeriodicWindows, fs \in PeriodicFees,
     picks \in [1..(PeriodicLen - 1) -> StrategyPicks] :
    LET ser == [f \in {"a", "b"} |-> IF f = "a" THEN sa ELSE sb]
        marketDatesAsc == UnionDates(ser, w)
        plans == buildPeriodPlans(marketDatesAsc, freq)
    IN /\ cfg = PeriodicConfig(w, PeriodicCapital, fs)
       /\ PeriodicInputs(ser, marketDatesAsc, WithPicks(plans, picks))

SpecPicks == InitPicks /\ [][NextPeriodic]_vars

\* shares x lastPrice summed over the open positions, as a fraction
RECURSIVE OpenValue(_, _)
OpenValue(positionsMap, files) ==
  IF files = {} THEN <<0, 1>>
  ELSE LET f == CHOOSE x \in files : TRUE
           rest == OpenValue(positionsMap, files \ {f})
       IN IF Has(positionsMap[f])
          THEN RatAdd(rest, RatMul(positionsMap[f].shares, <<positionsMap[f].lastPrice, 1>>))
          ELSE rest

\* C25: in periodic mode, at every recorded equity point totalMarketValue equals the
\* sum of shares x lastPrice over the open positions (0 when none is open), for every
\* picks list a strategy may return, lists naming a security twice included.
C25_PeriodicMarketValue ==
  (pc \in {"dates", "periodicDone"} /\ equityCurve # <<>>) =>
     totalMarketValue = OpenValue(positions, DOMAIN positions)

\* the run state when the allocation of market date d starts: prices marked and the
\* period's sells done (lines 535-539)
BeforeAllocation(st, ser, c, periodPlans, d) ==
  LET st1 == applyPriceUpdateAt(st, ser, c, d)
  IN IF HasSellPlan(periodPlans, c, d) THEN sellAllAtClose(st1, c, d, "period_exit") ELSE st1

\* C24: when a period opens with cash c > 0 and k >= 1 tradable picks, cash becomes 0,
\* each tradable pick is recorded with cost basis c / k and shares
\* (c / k) / (1 + feeRate) / buyPrice, and with zero fees equity right after the
\* allocation equals equity right before it; with k = 0 cash is left untouched.
C24_AllocatesAllCash ==
  [][(pc = "dates" /\ i < Len(per.marketDates)
        /\ BuyPlanIdx(per.periodPlans, cfg, At(per.marketDates, i)) # {}) =>
      LET d == At(per.marketDates, i)
          plan == per.periodPlans[CHOOSE k \in BuyPlanIdx(per.periodPlans, cfg, d) : TRUE]
          before == BeforeAllocation(RunState, seriesByFile, cfg, per.periodPlans, d)
          c == before.cash
          tradable == TradablePicks(seriesByFile, plan)
          k == Len(tradable)
          feeRate == Rat(cfg.feeBps, BpsDenominator)
      IN /\ (RatPos(c) /\ k >= 1) =>
               /\ cash' = <<0, 1>>
               /\ \A n \in DOMAIN tradable :
                     /\ Has(positions'[tradable[n].file])
                     /\ positions'[tradable[n].file].entry.cost = RatDiv(c, <<k, 1>>)
                     /\ positions'[tradable[n].file].shares =
                          RatDiv(RatDiv(RatDiv(c, <<k, 1>>), RatAdd(<<1, 1>>, feeRate)),
                                 <<tradable[n].buyPx, 1>>)
               /\ cfg.feeBps = 0 =>
                     RatAdd(cash', totalMarketValue') = RatAdd(c, before.totalMarketValue)
         /\ k = 0 => cash' = c]_vars

C24_Witness ==
  /\ pc = "dates"
  /\ cash = <<0, 1>>
  /\ cfg.feeBps > 0
  /\ Has(positions["a"]) /\ Has(positions["b"])
  /\ positions["a"].entry.cost = positions["b"].entry.cost

\* C26: every plan of buildPeriodPlans has buyYmd < sellYmd, both among the input
\* dates; the plans come in ascending buy-date order and the holding intervals of two
\* plans overlap at most in a shared boundary date.
C26_PlanShape ==
  LET plans == per.periodPlans
      dates == SeqRange(per.marketDatesAsc)
  IN /\ \A k \in DOMAIN plans :
          /\ plans[k].buyYmd < plans[k].sellYmd
          /\ plans[k].buyYmd \in dates
          /\ plans[k].sellYmd \in dates
     /\ \A k \in DOMAIN plans : \A m \in DOMAIN plans :
          k < m => /\ plans[k].buyYmd < plans[m].buyYmd
                   /\ plans[k].sellYmd <= plans[m].buyYmd

\* the sum of pnl over a sequence of trade records
RECURSIVE TradePnl(_)
TradePnl(ts) == IF ts = <<>> THEN 0 ELSE Head(ts).pnl + TradePnl(Tail(ts))

OpenCostBasis ==
  SetSum(OpenFiles, [f \in OpenFiles |-> positions[f].entry.costBasis])

\* C27: in every state of simulatePortfolioEqualWeight cash equals initialCapital plus
\* the pnl of all trades so far minus the cost bases of the open positions; a run that
\* returns with no position open has finalEquity - initialCapital equal to the recorded
\* pnl.
C27_AccountingIdentity ==
  /\ cash = cfg.initialCapital * Scale + TradePnl(trades) - OpenCostBasis
  /\ (pc = "done" /\ OpenFiles = {}) =>
        result.finalEquity - cfg.initialCapital * Scale = TradePnl(trades)

C27_Witness ==
  /\ pc = "done"
  /\ OpenFiles = {}
  /\ Len(trades) >= 2
  /\ TradePnl(trades) # 0
  /\ cfg.feeBps + cfg.stampBps > 0

\* the sell events of the batch being settled whose security holds a position
SettlingSells ==
  {k \in DOMAIN todays : todays[k].type = "sell" /\ Has(positions[todays[k].file])}

\* C28: for events of buildExecutionEvents over strictly ascending dates, when sellOne
\* settles a sell for an open position the position's last mark already equals the
\* sell's execution price, so the correction of lines 289-292 leaves totalMarketValue
\* as it is.
C28_NoLagAtSell ==
  pc = "settle" =>
    \A k \in SettlingSells :
       /\ positions[todays[k].file].lastPrice = todays[k].price
       /\ sellOne(RunState, seriesByFile, cfg, todays[k]).totalMarketValue
            = totalMarketValue - positions[todays[k].file].shares * todays[k].price * Scale

C28_Witness ==
  /\ pc = "settle"
  /\ \E k \in SettlingSells :
        /\ positions[todays[k].file].lastPrice # positions[todays[k].file].entry.price
        /\ positions[todays[k].file].entry.date < todays[k].date

\* C29: when simulatePortfolioEqualWeight returns the heap of pending price updates is
\* empty, a non-empty equity curve ends on the returned finalEquity, and a run without
\* in-window events returns an empty curve and finalEquity = initialCapital.
C29_EndOfRun ==
  pc = "done" =>
    /\ heap = <<>>
    /\ equityCurve # <<>> => equityCurve[Len(equityCurve)].equity = result.finalEquity
    /\ sortedEvents = <<>> =>
          /\ equityCurve = <<>>
          /\ result.finalEquity = cfg.initialCapital * Scale

\* a run that returns after its final flush has marked a position still open
C29_Witness ==
  /\ pc = "done"
  /\ equityCurve # <<>>
  /\ OpenFiles # {}
  /\ equityCurve[Len(equityCurve)].date > sortedEvents[Len(sortedEvents)].date

C29_NoEvents == pc = "done" /\ sortedEvents = <<>> /\ events # <<>>

(***************************************************************************)
(* simulateLongOnly over every signal sequence of the builder's series     *)
(***************************************************************************)
InitLongOnly ==
  \E ex \in ExecutionModes, s \in BuilderSeries \cup {ShortSignals}, force \in BOOLEAN,
     w \in {[startYmd |-> 1, endYmd |-> SeriesLen], [startYmd |-> 2, endYmd |-> SeriesLen]} :
    /\ seriesByFile = [f \in {"a"} |-> s]
    /\ cfg = [startYmd |-> w.startYmd, endYmd |-> w.endYmd, initialCapital |-> 1500,
              execution |-> ex, lot |-> DefaultLot, feeBps |-> 10, stampBps |-> 10,
              forceExitEof |-> force]
    /\ events = <<>>
    /\ sortedEvents = <<>>
    /\ i = 0
    /\ date = Null
    /\ todays = <<>>
    /\ cash = 0
    /\ positions = [f \in Files |-> NoPos]
    /\ trades = <<>>
    /\ equityCurve = <<>>
    /\ totalMarketValue = 0
    /\ heap = <<>>
    /\ result = NoResult
    /\ pc = "long"
    /\ log = <<>>
    /\ dd = Idle
    /\ per = NoPlans
    /\ single = Flat
    /\ narrow = NoCandidates

SpecLongOnly == InitLongOnly /\ [][NextLongOnly]_vars

\* the step appends exactly one trade record, which closes the position held before it
ClosesHeld ==
  /\ Len(trades') = Len(trades) + 1
  /\ SubSeq(trades', 1, Len(trades)) = trades
  /\ single.shares > 0
  /\ trades'[Len(trades')].entryDate = single.entry.execDate
  /\ trades'[Len(trades')].entryPrice = single.entry.execPrice
  /\ trades'[Len(trades')].shares = single.shares

\* the step opens a position
Opens == single'.entry # NoEntry /\ single'.entry # single.entry

\* C30: in simulateLongOnly with forceExitEof = true, shares > 0 exactly when an entry
\* record exists; an index sells before it buys; every position bought is closed by
\* exactly one trade record; the run ends with zero shares and finalEquity = cash; each
\* trade's entryDate is on or after the trade before it's exitDate.
C30_EndsFlat ==
  /\ [](cfg.forceExitEof =>
          /\ (single.shares > 0) <=> (single.entry # NoEntry)
          /\ \A k \in 1..(Len(trades) - 1) : trades[k + 1].entryDate >= trades[k].exitDate
          /\ (single.entry # NoEntry /\ trades # <<>>) =>
                single.entry.execDate >= trades[Len(trades)].exitDate
          /\ pc = "longDone" => single.shares = 0 /\ result.finalEquity = cash)
  /\ [][(cfg.forceExitEof /\ pc = "indices") =>
          /\ trades' = trades \/ ClosesHeld
          /\ Opens => (single.shares = 0 \/ ClosesHeld)
          /\ (single.entry # NoEntry /\ single'.entry # single.entry) => ClosesHeld
          /\ (pc' = "longDone" /\ single.shares > 0) =>
                ClosesHeld /\ trades'[Len(trades')].reason = "force_exit_eof"]_vars

\* a run that sold and bought at one index and was closed by the forced exit
C30_Witness ==
  /\ pc = "longDone"
  /\ cfg.forceExitEof
  /\ Len(trades) >= 2
  /\ trades[Len(trades)].reason = "force_exit_eof"
  /\ trades[Len(trades)].entryDate = trades[Len(trades) - 1].exitDate
  /\ single.shares = 0

====
